---- MODULE Spec2Model ----
(***************************************************************************)
(* Model of the medical-triage assistant: the symptom matcher and the      *)
(* guidance aggregator (app/core/guidance_engine.py) and the schema        *)
(* builder (app/core/medical_schema.py).                                   *)
(*                                                                         *)
(* Python str values are sequences of one-character strings, so that       *)
(* lower(), strip(), split(), join(), replace() and the `in` operator are  *)
(* computed character by character.  Opaque texts (questions, hints,       *)
(* advice) are TLA+ strings compared only for equality.                    *)
(***************************************************************************)
EXTENDS Integers, Sequences, FiniteSets, TLC

VARIABLES
    op,               \* the operation that produced the current outputs
    guidance_data,    \* the rule table (guidance_rules.json after json.load)
    complaint,        \* argument of match_symptoms
    matched_symptoms, \* result of match_symptoms / argument of build_guidance_bundle
    bundle,           \* result of build_guidance_bundle
    history_text,     \* argument of parse_medical_history
    answers,          \* argument of build_medical_schema
    schema,           \* result of build_medical_schema
    medical_history,  \* result of parse_medical_history
    raised,           \* the exception the last call raised, "none" when it returned
    templates,        \* MEDICAL_SCHEMA_TEMPLATE and DYNAMIC_FIELDS, the module globals
    returned,         \* the schemas build_medical_schema returned so far
    responses,        \* argument of generate_medical_report
    report_symptom_data, \* argument symptom_data of generate_medical_report
    llm,              \* what the external LLM service does with the request made
    report,           \* result of generate_medical_report
    age_str,          \* argument of _extract_age_number
    age_number,       \* result of _extract_age_number
    sessions,         \* the session store: session id -> stored row
    issued,           \* the session ids the store has handed out
    request,          \* the chat request being served
    response,         \* the HTTP response of the chat endpoint
    events,           \* the external calls the last handler made, in order
    rules_file,       \* state of data/guidance_rules.json
    guidance,         \* result of get_guidance
    user_message,     \* argument user_message of get_llm_response
    context,          \* the prompt get_llm_response sent, None when none was built
    llm_response,     \* result of get_llm_response
    system_prompt,    \* the system prompt the chat endpoint built, None when none
    reports,          \* argument of build_report_context
    report_context    \* result of build_report_context

guidance_vars == <<guidance_data, complaint, matched_symptoms, bundle>>
schema_vars == <<history_text, answers, schema, medical_history, raised>>
calls_vars == <<templates, returned>>
report_vars == <<responses, report_symptom_data, llm, report, age_str, age_number>>
chat_vars == <<sessions, issued, request, response, events>>
engine_vars == <<rules_file, guidance>>
prompt_vars == <<user_message, context, llm_response, system_prompt, reports,
                report_context>>
service_vars == <<calls_vars, report_vars, chat_vars, engine_vars, prompt_vars>>

vars == <<op, guidance_vars, schema_vars, service_vars>>

----------------------------------------------------------------------------
(* Bounds of the model *)

MaxComplaintLen == 3
MaxKeywordLen == 2
MaxMatched == 2
MaxHistoryLen == 4
MaxAgeTextLen == 3

----------------------------------------------------------------------------
(* Python values *)

None == [t |-> "None"]
Str(s) == [t |-> "str", v |-> s]
PyInt(n) == [t |-> "int", v |-> n]
PyBool(b) == [t |-> "bool", v |-> b]
\* a finite float is held in tenths (PyFloat(305) is 30.5); inf, -inf and nan by name
PyFloat(tenths) == [t |-> "float", tenths |-> tenths]
FloatSpecial(name) == [t |-> "float", special |-> name]
\* a value of another type (a list)
PyList(items) == [t |-> "list", v |-> items]

IsNone(x) == x.t = "None"
IsStr(x) == x.t = "str"

\* bool(x) for None and str: None and "" are falsy
truthy(x) == IF IsNone(x) THEN FALSE ELSE x.v # <<>>

Range(s) == {s[i] : i \in DOMAIN s}

\* dict.get(key, default); a dict with str keys is a function on its keys
dict_get(d, key, default) == IF key \in DOMAIN d THEN d[key] ELSE default

\* A dict whose iteration order matters (guidance_data["symptoms"]) is the
\* sequence of its items [name, data], names pairwise distinct.
item_names(items) == [i \in DOMAIN items |-> items[i].name]
has_key(items, name) == \E i \in DOMAIN items : items[i].name = name
item_data(items, name) == items[CHOOSE i \in DOMAIN items : items[i].name = name].data

\* all character sequences over `chars` of length at most n
StringsUpTo(chars, n) == UNION {[1..m -> chars] : m \in 0..n}

----------------------------------------------------------------------------
(* str methods *)

\* str.lower() on one character
lower_char(ch) ==
    CASE ch = "A" -> "a" [] ch = "B" -> "b" [] ch = "C" -> "c" [] ch = "D" -> "d"
      [] ch = "E" -> "e" [] ch = "F" -> "f" [] ch = "G" -> "g" [] ch = "H" -> "h"
      [] ch = "I" -> "i" [] ch = "J" -> "j" [] ch = "K" -> "k" [] ch = "L" -> "l"
      [] ch = "M" -> "m" [] ch = "N" -> "n" [] ch = "O" -> "o" [] ch = "P" -> "p"
      [] ch = "Q" -> "q" [] ch = "R" -> "r" [] ch = "S" -> "s" [] ch = "T" -> "t"
      [] ch = "U" -> "u" [] ch = "V" -> "v" [] ch = "W" -> "w" [] ch = "X" -> "x"
      [] ch = "Y" -> "y" [] ch = "Z" -> "z"
      [] OTHER -> ch

\* str.lower()
lower(s) == [i \in DOMAIN s |-> lower_char(s[i])]

\* str.isspace() on one character
isspace(ch) == ch \in {" ", "\t", "\n"}

RECURSIVE lstrip(_)
lstrip(s) ==
    IF s = <<>> THEN <<>>
    ELSE IF isspace(Head(s)) THEN lstrip(Tail(s))
    ELSE s

RECURSIVE rstrip(_)
rstrip(s) ==
    IF s = <<>> THEN <<>>
    ELSE IF isspace(s[Len(s)]) THEN rstrip(SubSeq(s, 1, Len(s) - 1))
    ELSE s

\* str.strip()
strip(s) == rstrip(lstrip(s))

\* length of the leading run of non-whitespace characters of s
RECURSIVE word_len(_)
word_len(s) ==
    IF s = <<>> THEN 0
    ELSE IF isspace(Head(s)) THEN 0
    ELSE 1 + word_len(Tail(s))

\* str.split() with no argument: the maximal runs of non-whitespace
RECURSIVE split_ws(_)
split_ws(s) ==
    IF s = <<>> THEN <<>>
    ELSE IF isspace(Head(s)) THEN split_ws(Tail(s))
    ELSE LET n == word_len(s)
         IN <<SubSeq(s, 1, n)>> \o split_ws(SubSeq(s, n + 1, Len(s)))

\* sep.join(parts)
RECURSIVE join(_, _)
join(sep, parts) ==
    IF parts = <<>> THEN <<>>
    ELSE IF Len(parts) = 1 THEN parts[1]
    ELSE parts[1] \o sep \o join(sep, Tail(parts))

\* sub in s
str_in(sub, s) ==
    \E i \in 0..(Len(s) - Len(sub)) : SubSeq(s, i + 1, i + Len(sub)) = sub

\* s.replace(" ", "")
remove_spaces(s) == SelectSeq(s, LAMBDA ch : ch # " ")

----------------------------------------------------------------------------
(* guidance_engine.match_symptoms *)

\* " ".join(complaint.lower().strip().split())
complaint_normalize(s) == join(<<" ">>, split_ws(strip(lower(s))))

\* keyword.lower().strip()
keyword_normalize(k) == strip(lower(k))

\* keyword_matches with the whitespace-insensitive strategy left out
keyword_matches_without_no_space(keyword, complaint_normalized) ==
    LET keyword_normalized == keyword_normalize(keyword)
    IN \/ keyword_normalized = complaint_normalized
       \/ str_in(keyword_normalized, complaint_normalized)
       \/ str_in(complaint_normalized, keyword_normalized)

\* the four matching strategies tried for one keyword
keyword_matches(keyword, complaint_normalized) ==
    LET keyword_normalized == keyword_normalize(keyword)
        keyword_no_space == remove_spaces(keyword_normalized)
        complaint_no_space == remove_spaces(complaint_normalized)
    IN \/ keyword_normalized = complaint_normalized
       \/ str_in(keyword_normalized, complaint_normalized)
       \/ str_in(complaint_normalized, keyword_normalized)
       \/ str_in(keyword_no_space, complaint_no_space)
       \/ str_in(complaint_no_space, keyword_no_space)

\* keyword_loop without the break: one append per matching keyword
RECURSIVE keyword_loop_without_break(_, _, _)
keyword_loop_without_break(symptom_name, keywords, complaint_normalized) ==
    IF keywords = <<>> THEN <<>>
    ELSE (IF keyword_matches(Head(keywords), complaint_normalized)
          THEN <<symptom_name>> ELSE <<>>)
         \o keyword_loop_without_break(symptom_name, Tail(keywords), complaint_normalized)

\* the inner loop over one symptom's keywords: append and break on the first match
RECURSIVE keyword_loop(_, _, _)
keyword_loop(symptom_name, keywords, complaint_normalized) ==
    IF keywords = <<>> THEN <<>>
    ELSE IF keyword_matches(Head(keywords), complaint_normalized)
         THEN <<symptom_name>>
         ELSE keyword_loop(symptom_name, Tail(keywords), complaint_normalized)

\* the outer loop over symptoms_data.items()
RECURSIVE symptom_loop(_, _)
symptom_loop(symptoms_data, complaint_normalized) ==
    IF symptoms_data = <<>> THEN <<>>
    ELSE keyword_loop(Head(symptoms_data).name,
                      dict_get(Head(symptoms_data).data, "keywords", <<>>),
                      complaint_normalized)
         \o symptom_loop(Tail(symptoms_data), complaint_normalized)

match_symptoms(c, symptoms_data) ==
    IF ~truthy(c) THEN <<>>
    ELSE symptom_loop(symptoms_data, complaint_normalize(c.v))

----------------------------------------------------------------------------
(* Inputs of the matcher *)

ComplaintChars == {"a", "b", " ", "A"}
KeywordChars == {"a", "b", " ", "A"}

Complaints == {None} \cup {Str(s) : s \in StringsUpTo(ComplaintChars, MaxComplaintLen)}
Keywords == StringsUpTo(KeywordChars, MaxKeywordLen)
ShortKeywords == {k \in Keywords : Len(k) <= 1}

KeywordSymptom(name, keywords) == [name |-> name, data |-> [keywords |-> keywords]]

MatchSymptomTables ==
    {<<>>, <<[name |-> "headache", data |-> <<>>]>>}
    \cup {<<KeywordSymptom("headache", <<k>>)>> : k \in Keywords}
    \cup {<<KeywordSymptom("headache", <<k, j>>)>> : k \in Keywords, j \in ShortKeywords}
    \cup {<<KeywordSymptom("headache", <<k>>), KeywordSymptom("fever", <<j>>)>> :
            k \in Keywords, j \in ShortKeywords}
    \cup {<<KeywordSymptom("fever", <<j>>), KeywordSymptom("headache", <<k>>)>> :
            k \in Keywords, j \in ShortKeywords}

NoBundle == [matched_symptoms |-> <<>>]
NoSchema == [demographics |-> [age |-> None]]

\* the variables of the schema builder, before any call to it
SchemaIdle ==
    /\ history_text = None
    /\ answers = <<>>
    /\ schema = NoSchema
    /\ medical_history = <<>>
    /\ raised = "none"

\* the variables of the guidance engine, before the rule table is loaded
GuidanceIdle ==
    /\ guidance_data = <<>>
    /\ complaint = None
    /\ matched_symptoms = <<>>
    /\ bundle = NoBundle

\* the module-level templates of medical_schema.py as the import leaves them
MEDICAL_SCHEMA_TEMPLATE ==
    [demographics |-> [age |-> None, gender |-> None],
     medical_history |-> <<>>,
     current_complaint |-> None,
     symptom_duration |-> None,
     red_flags |-> <<>>,
     allergies |-> <<>>,
     medications |-> <<>>,
     pregnancy_status |-> None]

DYNAMIC_FIELDS ==
    [observations |-> <<>>,
     follow_up_answers |-> <<>>,
     derived_findings |-> <<>>,
     llm_advice |-> <<>>,
     urgency |-> None,
     confidence |-> None]

NoRequest == [endpoint |-> "none"]
NoResponse == [status |-> 0]
NoCall == [outcome |-> "not called"]

\* the schema builder's module state, before any call
CallsIdle ==
    /\ templates = [MEDICAL_SCHEMA_TEMPLATE |-> MEDICAL_SCHEMA_TEMPLATE,
                    DYNAMIC_FIELDS |-> DYNAMIC_FIELDS]
    /\ returned = <<>>

\* the report synthesizer, before any call
ReportIdle ==
    /\ responses = <<>>
    /\ report_symptom_data = None
    /\ llm = NoCall
    /\ report = None
    /\ age_str = None
    /\ age_number = 0

\* the chat endpoints, before any request: an empty session store
ChatIdle ==
    /\ sessions = <<>>
    /\ issued = {}
    /\ request = NoRequest
    /\ response = NoResponse
    /\ events = <<>>

\* get_guidance, before any call
EngineIdle ==
    /\ rules_file = [state |-> "missing"]
    /\ guidance = None

\* the prompt composers, before any call
PromptIdle ==
    /\ user_message = None
    /\ context = None
    /\ llm_response = None
    /\ system_prompt = None
    /\ reports = <<>>
    /\ report_context = None

ServiceIdle == CallsIdle /\ ReportIdle /\ ChatIdle /\ EngineIdle /\ PromptIdle

----------------------------------------------------------------------------
(* The matcher as a state machine: the rule table is loaded, then           *)
(* match_symptoms is called with any complaint.                             *)

InitMatch ==
    /\ op = "load_guidance_rules"
    /\ guidance_data \in {[symptoms |-> t] : t \in MatchSymptomTables}
    /\ complaint = None
    /\ matched_symptoms = <<>>
    /\ bundle = NoBundle
    /\ SchemaIdle
    /\ ServiceIdle

MatchSymptoms ==
    \E c \in Complaints :
        /\ op = "load_guidance_rules"
        /\ op' = "match_symptoms"
        /\ complaint' = c
        /\ matched_symptoms' = match_symptoms(c, dict_get(guidance_data, "symptoms", <<>>))
        /\ UNCHANGED <<guidance_data, bundle, schema_vars, service_vars>>

NextMatch == MatchSymptoms

SpecMatch == InitMatch /\ [][NextMatch]_vars

----------------------------------------------------------------------------
(* Claims about match_symptoms *)

symptoms_of_table == dict_get(guidance_data, "symptoms", <<>>)

IsNormalized(s) == complaint_normalize(s) = s

\* the containment conditions of the claim, on the keyword as listed
ContainmentHolds(k, c) ==
    \/ k = c
    \/ str_in(k, c)
    \/ str_in(c, k)
    \/ str_in(remove_spaces(k), remove_spaces(c))
    \/ str_in(remove_spaces(c), remove_spaces(k))

EveryContainedKeywordMatches ==
    \A i \in DOMAIN symptoms_of_table :
        \A j \in DOMAIN dict_get(symptoms_of_table[i].data, "keywords", <<>>) :
            ContainmentHolds(symptoms_of_table[i].data.keywords[j], complaint.v)
                => symptoms_of_table[i].name \in Range(matched_symptoms)

\* C1 as stated: for every normalized complaint c and every keyword k of a
\* symptom, if k = c, or either contains the other, or their space-stripped
\* forms contain one another, the symptom is in match_symptoms(c, rules).
C1_ContainmentImpliesMatch ==
    (op = "match_symptoms" /\ IsStr(complaint) /\ IsNormalized(complaint.v))
        => EveryContainedKeywordMatches

\* C1 amended: the same for every NON-EMPTY normalized complaint (the empty
\* complaint is contained in every keyword, yet match_symptoms("") is empty).
C1_NonEmptyContainmentImpliesMatch ==
    (op = "match_symptoms" /\ IsStr(complaint) /\ IsNormalized(complaint.v)
        /\ complaint.v # <<>>)
        => EveryContainedKeywordMatches

\* a non-empty normalized complaint matched only through the space-stripped forms
C1_Witness ==
    /\ op = "match_symptoms"
    /\ IsStr(complaint)
    /\ complaint.v = <<"a", " ", "b">>
    /\ symptoms_of_table = <<KeywordSymptom("headache", <<(<<"a", "b">>)>>)>>
    /\ matched_symptoms = <<"headache">>

\* C2 as stated: a complaint that is None, empty, or empty after
\* normalization (whitespace only) yields the empty result.
C2_EmptyComplaintYieldsEmpty ==
    (op = "match_symptoms"
        /\ (IsNone(complaint) \/ complaint_normalize(complaint.v) = <<>>))
        => matched_symptoms = <<>>

\* C3: the result lists each symptom id at most once, only keys of the rule
\* table, in the rule table's iteration order.
C3_UniqueKnownOrdered ==
    op = "match_symptoms" =>
        /\ \A i, j \in DOMAIN matched_symptoms :
              i # j => matched_symptoms[i] # matched_symptoms[j]
        /\ \A i \in DOMAIN matched_symptoms : has_key(symptoms_of_table, matched_symptoms[i])
        /\ \A i, j \in DOMAIN matched_symptoms :
              i < j =>
                \E a, b \in DOMAIN symptoms_of_table :
                    /\ a < b
                    /\ symptoms_of_table[a].name = matched_symptoms[i]
                    /\ symptoms_of_table[b].name = matched_symptoms[j]

\* two keywords of "headache" match the complaint and "fever", listed first
\* in the table, matches too
C3_Witness ==
    /\ op = "match_symptoms"
    /\ complaint = Str(<<"a", "b">>)
    /\ \/ /\ symptoms_of_table = <<KeywordSymptom("headache", <<(<<"a">>), (<<"b">>)>>)>>
          /\ matched_symptoms = <<"headache">>
       \/ /\ symptoms_of_table = <<KeywordSymptom("fever", <<(<<"a">>)>>),
                                    KeywordSymptom("headache", <<(<<"b">>)>>)>>
          /\ matched_symptoms = <<"fever", "headache">>

----------------------------------------------------------------------------
(* guidance_engine.build_guidance_bundle *)

\* x in list
list_in(x, list) == \E i \in DOMAIN list : list[i] = x

\* sep.join(parts) for texts held as TLA+ strings
RECURSIVE text_join(_, _)
text_join(sep, parts) ==
    IF parts = <<>> THEN ""
    ELSE IF Len(parts) = 1 THEN parts[1]
    ELSE parts[1] \o sep \o text_join(sep, Tail(parts))

\* initial_bundle with the two global fields left at their empty defaults
initial_bundle_without_globals(matched, gd) ==
    [matched_symptoms |-> matched,
     follow_up_questions |-> <<>>,
     urgency_rules |-> <<>>,
     analysis_hints |-> <<>>,
     suggested_advice |-> <<>>,
     emergency_keywords |-> <<>>,
     disclaimer |-> ""]

\* the bundle as initialized before the loop
initial_bundle(matched, gd) ==
    [matched_symptoms |-> matched,
     follow_up_questions |-> <<>>,
     urgency_rules |-> <<>>,
     analysis_hints |-> <<>>,
     suggested_advice |-> <<>>,
     emergency_keywords |-> dict_get(gd, "emergency_keywords", <<>>),
     disclaimer |-> dict_get(gd, "disclaimer", "")]

\* collect_questions without the membership test
collect_questions_without_dedup(follow_up_questions, questions) ==
    follow_up_questions \o questions

\* for q in questions: if q not in follow_up_questions: append
RECURSIVE collect_questions(_, _)
collect_questions(follow_up_questions, questions) ==
    IF questions = <<>> THEN follow_up_questions
    ELSE collect_questions(
            IF list_in(Head(questions), follow_up_questions)
            THEN follow_up_questions
            ELSE Append(follow_up_questions, Head(questions)),
            Tail(questions))

\* collect_urgency where a later rule replaces the earlier ones of its level
collect_urgency_overwriting(combined_urgency, urgency) ==
    [level \in DOMAIN combined_urgency \cup DOMAIN urgency |->
        IF level \in DOMAIN urgency THEN <<urgency[level]>> ELSE combined_urgency[level]]

\* for level, rule in urgency.items(): combined_urgency[level].append(rule)
collect_urgency(combined_urgency, urgency) ==
    [level \in DOMAIN combined_urgency \cup DOMAIN urgency |->
        (IF level \in DOMAIN combined_urgency THEN combined_urgency[level] ELSE <<>>)
        \o (IF level \in DOMAIN urgency THEN <<urgency[level]>> ELSE <<>>)]

\* if text and text not in all_texts: append   (analysis_hints, suggested_advice)
collect_text(all_texts, text) ==
    IF text # "" /\ ~list_in(text, all_texts) THEN Append(all_texts, text) ELSE all_texts

\* one iteration of the loop over matched_symptoms, on the accumulators
collect_symptom(acc, symptom_data) ==
    [follow_up_questions |->
        collect_questions(acc.follow_up_questions,
                          dict_get(symptom_data, "follow_up_questions", <<>>)),
     combined_urgency |->
        collect_urgency(acc.combined_urgency, dict_get(symptom_data, "urgency_rules", <<>>)),
     all_hints |-> collect_text(acc.all_hints, dict_get(symptom_data, "analysis_hints", "")),
     all_advice |-> collect_text(acc.all_advice, dict_get(symptom_data, "suggested_advice", ""))]

\* bundle_loop where an id missing from the table ends the loop (break for continue)
RECURSIVE bundle_loop_breaking(_, _, _)
bundle_loop_breaking(matched, symptoms_data, acc) ==
    IF matched = <<>> THEN acc
    ELSE IF ~has_key(symptoms_data, Head(matched))
         THEN acc
         ELSE bundle_loop_breaking(Tail(matched), symptoms_data,
                                   collect_symptom(acc, item_data(symptoms_data, Head(matched))))

\* the loop over matched_symptoms; an id missing from the table is skipped
RECURSIVE bundle_loop(_, _, _)
bundle_loop(matched, symptoms_data, acc) ==
    IF matched = <<>> THEN acc
    ELSE IF ~has_key(symptoms_data, Head(matched))
         THEN bundle_loop(Tail(matched), symptoms_data, acc)
         ELSE bundle_loop(Tail(matched), symptoms_data,
                          collect_symptom(acc, item_data(symptoms_data, Head(matched))))

\* " OR ".join(rules) if len(rules) > 1 else rules[0], per level
flatten_urgency(combined_urgency) ==
    [level \in DOMAIN combined_urgency |->
        IF Len(combined_urgency[level]) > 1
        THEN text_join(" OR ", combined_urgency[level])
        ELSE combined_urgency[level][1]]

build_guidance_bundle(matched, gd) ==
    LET symptoms_data == dict_get(gd, "symptoms", <<>>)
        b0 == initial_bundle(matched, gd)
    IN IF matched = <<>> THEN b0
       ELSE LET acc == bundle_loop(matched, symptoms_data,
                                   [follow_up_questions |-> <<>>, combined_urgency |-> <<>>,
                                    all_hints |-> <<>>, all_advice |-> <<>>])
            IN [b0 EXCEPT !.follow_up_questions = acc.follow_up_questions,
                          !.urgency_rules = flatten_urgency(acc.combined_urgency),
                          !.analysis_hints = acc.all_hints,
                          !.suggested_advice = acc.all_advice]

----------------------------------------------------------------------------
(* Inputs of the aggregator *)

UrgencyLevels == {"doctor_visit", "emergency"}

UrgencyRules ==
    {<<>>,
     [doctor_visit |-> "A"],
     [doctor_visit |-> "B"],
     [emergency |-> "A"],
     [doctor_visit |-> "B", emergency |-> "A"]}

FollowUpQuestions == {<<>>, <<"q1">>, <<"q1", "q2">>, <<"q2", "q1">>}

\* <<analysis_hints, suggested_advice>>
HintsAndAdvice == {<<"", "">>, <<"h1", "v1">>, <<"h2", "v2">>, <<"h1", "">>}

\* the values of guidance_data["symptoms"]; the last one has none of the keys
SymptomRules ==
    {[keywords |-> <<>>, follow_up_questions |-> q, urgency_rules |-> u,
      analysis_hints |-> t[1], suggested_advice |-> t[2]] :
        q \in FollowUpQuestions, u \in UrgencyRules, t \in HintsAndAdvice}
    \cup {<<>>}

\* emergency_keywords and disclaimer, defined or missing from the document
TableGlobals ==
    {[emergency_keywords |-> <<"chest pain", "seizure">>, disclaimer |-> "not a diagnosis"],
     <<>>}

BundleTables ==
    {[k \in DOMAIN g \cup {"symptoms"} |->
        IF k = "symptoms"
        THEN <<[name |-> "fever", data |-> f], [name |-> "headache", data |-> h]>>
        ELSE g[k]] :
        g \in TableGlobals, f \in SymptomRules, h \in SymptomRules}

\* "cough" is an id the rule table does not have
MatchedIds == {"fever", "headache", "cough"}
MatchedInputs == UNION {[1..n -> MatchedIds] : n \in 0..MaxMatched}

----------------------------------------------------------------------------
(* The aggregator as a state machine *)

InitBundle ==
    /\ op = "load_guidance_rules"
    /\ guidance_data \in BundleTables
    /\ complaint = None
    /\ matched_symptoms = <<>>
    /\ bundle = NoBundle
    /\ SchemaIdle
    /\ ServiceIdle

BuildGuidanceBundle ==
    \E m \in MatchedInputs :
        /\ op = "load_guidance_rules"
        /\ op' = "build_guidance_bundle"
        /\ matched_symptoms' = m
        /\ bundle' = build_guidance_bundle(m, guidance_data)
        /\ UNCHANGED <<guidance_data, complaint, schema_vars, service_vars>>

NextBundle == BuildGuidanceBundle

SpecBundle == InitBundle /\ [][NextBundle]_vars

----------------------------------------------------------------------------
(* Claims about build_guidance_bundle *)

\* the rule data of symptom id n, for an id the table has
RuleOf(n) == item_data(symptoms_of_table, n)

\* matched with the ids the rule table does not have removed
KnownMatched(matched) == SelectSeq(matched, LAMBDA n : has_key(symptoms_of_table, n))

\* the rule texts for `level` of the entries of matched that define it, in order
RECURSIVE LevelTexts(_, _)
LevelTexts(matched, level) ==
    IF matched = <<>> THEN <<>>
    ELSE (IF /\ has_key(symptoms_of_table, Head(matched))
             /\ level \in DOMAIN dict_get(RuleOf(Head(matched)), "urgency_rules", <<>>)
          THEN <<RuleOf(Head(matched)).urgency_rules[level]>>
          ELSE <<>>)
         \o LevelTexts(Tail(matched), level)

\* t1, then " OR " and the next text for each further one
RECURSIVE JoinedWithOr(_)
JoinedWithOr(texts) ==
    IF Len(texts) = 1 THEN texts[1]
    ELSE JoinedWithOr(SubSeq(texts, 1, Len(texts) - 1)) \o " OR " \o texts[Len(texts)]

\* C4: per urgency level, urgency_rules holds the rule texts of the matched
\* symptoms that define the level, in the order of matched, joined by " OR "
\* when there are two or more and unchanged when there is one; a level no
\* matched symptom defines is absent.  (An id listed twice in matched counts
\* twice.)
C4_UrgencyMergedPerLevel ==
    op = "build_guidance_bundle" =>
        \A level \in UrgencyLevels \cup DOMAIN bundle.urgency_rules :
            LET texts == LevelTexts(matched_symptoms, level)
            IN IF texts = <<>>
               THEN level \notin DOMAIN bundle.urgency_rules
               ELSE /\ level \in DOMAIN bundle.urgency_rules
                    /\ bundle.urgency_rules[level] = JoinedWithOr(texts)

\* the example of the specification: "A" and "B" for doctor_visit give "A OR B",
\* and the level only one of them defines keeps its text
C4_Witness ==
    /\ op = "build_guidance_bundle"
    /\ matched_symptoms = <<"fever", "headache">>
    /\ DOMAIN dict_get(RuleOf("fever"), "urgency_rules", <<>>) = {"doctor_visit"}
    /\ RuleOf("fever").urgency_rules["doctor_visit"] = "A"
    /\ DOMAIN dict_get(RuleOf("headache"), "urgency_rules", <<>>)
            = {"doctor_visit", "emergency"}
    /\ RuleOf("headache").urgency_rules["doctor_visit"] = "B"
    /\ DOMAIN bundle.urgency_rules = {"doctor_visit", "emergency"}
    /\ bundle.urgency_rules["doctor_visit"] = "A OR B"
    /\ bundle.urgency_rules["emergency"] = "A"

\* s without the later occurrences of its elements
RECURSIVE FirstSeen(_, _)
FirstSeen(s, n) ==
    IF n = 0 THEN <<>>
    ELSE IF \E j \in 1..(n - 1) : s[j] = s[n]
         THEN FirstSeen(s, n - 1)
         ELSE Append(FirstSeen(s, n - 1), s[n])

\* the follow-up questions of the matched symptoms, one after the other
RECURSIVE QuestionsOf(_)
QuestionsOf(matched) ==
    IF matched = <<>> THEN <<>>
    ELSE (IF has_key(symptoms_of_table, Head(matched))
          THEN dict_get(RuleOf(Head(matched)), "follow_up_questions", <<>>)
          ELSE <<>>)
         \o QuestionsOf(Tail(matched))

\* the texts under `key` (a symptom has one, or none when it is empty or missing)
RECURSIVE TextsOf(_, _)
TextsOf(matched, key) ==
    IF matched = <<>> THEN <<>>
    ELSE (IF /\ has_key(symptoms_of_table, Head(matched))
             /\ dict_get(RuleOf(Head(matched)), key, "") # ""
          THEN <<RuleOf(Head(matched))[key]>>
          ELSE <<>>)
         \o TextsOf(Tail(matched), key)

\* C5: follow_up_questions, analysis_hints and suggested_advice are the texts
\* of the matched symptoms, each text once, in order of first appearance
\* along matched and, within a symptom, in the rule's own order.
C5_UnionDedupFirstSeen ==
    op = "build_guidance_bundle" =>
        LET q == QuestionsOf(matched_symptoms)
            h == TextsOf(matched_symptoms, "analysis_hints")
            a == TextsOf(matched_symptoms, "suggested_advice")
        IN /\ bundle.follow_up_questions = FirstSeen(q, Len(q))
           /\ bundle.analysis_hints = FirstSeen(h, Len(h))
           /\ bundle.suggested_advice = FirstSeen(a, Len(a))

\* two symptoms sharing questions and a hint: nothing is repeated
C5_Witness ==
    /\ op = "build_guidance_bundle"
    /\ matched_symptoms = <<"headache", "fever">>
    /\ dict_get(RuleOf("headache"), "follow_up_questions", <<>>) = <<"q2", "q1">>
    /\ dict_get(RuleOf("fever"), "follow_up_questions", <<>>) = <<"q1", "q2">>
    /\ dict_get(RuleOf("headache"), "analysis_hints", "") = "h1"
    /\ dict_get(RuleOf("fever"), "analysis_hints", "") = "h1"
    /\ dict_get(RuleOf("headache"), "suggested_advice", "") = "v1"
    /\ dict_get(RuleOf("fever"), "suggested_advice", "") = ""
    /\ bundle.follow_up_questions = <<"q2", "q1">>
    /\ bundle.analysis_hints = <<"h1">>
    /\ bundle.suggested_advice = <<"v1">>

\* C6: over an empty matched sequence the symptom-scoped fields are empty and
\* emergency_keywords and disclaimer are those of the rule table.
C6_EmptyMatchedKeepsGlobals ==
    (op = "build_guidance_bundle" /\ matched_symptoms = <<>>) =>
        /\ bundle.matched_symptoms = <<>>
        /\ bundle.follow_up_questions = <<>>
        /\ bundle.analysis_hints = <<>>
        /\ bundle.suggested_advice = <<>>
        /\ DOMAIN bundle.urgency_rules = {}
        /\ "emergency_keywords" \in DOMAIN guidance_data =>
              bundle.emergency_keywords = guidance_data.emergency_keywords
        /\ "disclaimer" \in DOMAIN guidance_data =>
              bundle.disclaimer = guidance_data.disclaimer
        /\ "emergency_keywords" \notin DOMAIN guidance_data => bundle.emergency_keywords = <<>>
        /\ "disclaimer" \notin DOMAIN guidance_data => bundle.disclaimer = ""

\* nothing matched, and the table's emergency keywords and disclaimer come through
C6_Witness ==
    /\ op = "build_guidance_bundle"
    /\ matched_symptoms = <<>>
    /\ "emergency_keywords" \in DOMAIN guidance_data
    /\ dict_get(RuleOf("fever"), "follow_up_questions", <<>>) = <<"q1">>
    /\ bundle.emergency_keywords = <<"chest pain", "seizure">>
    /\ bundle.disclaimer = "not a diagnosis"

\* C7: ids of matched that the rule table does not have are skipped: the
\* four aggregated fields are those obtained from matched without them.
C7_UnknownIdsSkipped ==
    op = "build_guidance_bundle" =>
        LET known == build_guidance_bundle(KnownMatched(matched_symptoms), guidance_data)
        IN /\ bundle.follow_up_questions = known.follow_up_questions
           /\ bundle.urgency_rules = known.urgency_rules
           /\ bundle.analysis_hints = known.analysis_hints
           /\ bundle.suggested_advice = known.suggested_advice

\* an unknown id ahead of a known one: the known one is still aggregated
C7_Witness ==
    /\ op = "build_guidance_bundle"
    /\ matched_symptoms = <<"cough", "fever">>
    /\ bundle.matched_symptoms = <<"cough", "fever">>
    /\ bundle.follow_up_questions = <<"q1", "q2">>
    /\ DOMAIN bundle.urgency_rules = {"doctor_visit"}
    /\ bundle.urgency_rules["doctor_visit"] = "A"
    /\ bundle.analysis_hints = <<"h1">>

----------------------------------------------------------------------------
(* medical_schema.normalize_value, parse_medical_history *)

\* value.lower().strip() for a str, the value itself otherwise
normalize_value(value) == IF IsStr(value) THEN Str(strip(lower(value.v))) ELSE value

\* the index of the first occurrence of sep in s, 0 when there is none
find(s, sep) ==
    IF str_in(sep, s)
    THEN CHOOSE i \in 1..(Len(s) - Len(sep) + 1) :
            /\ SubSeq(s, i, i + Len(sep) - 1) = sep
            /\ \A j \in 1..(i - 1) : SubSeq(s, j, j + Len(sep) - 1) # sep
    ELSE 0

\* s.split(sep) for a non-empty separator
RECURSIVE split(_, _)
split(s, sep) ==
    LET i == find(s, sep)
    IN IF i = 0 THEN <<s>>
       ELSE <<SubSeq(s, 1, i - 1)>> \o split(SubSeq(s, i + Len(sep), Len(s)), sep)

strip_each(items) == [i \in DOMAIN items |-> strip(items[i])]

s_none == <<"n", "o", "n", "e">>
s_no == <<"n", "o">>
s_nothing == <<"n", "o", "t", "h", "i", "n", "g">>
s_na == <<"n", "/", "a">>

\* the separators in the order the loop tries them
separators == <<(<<",">>), (<<";">>), (<<"a", "n", "d">>), (<<"&">>)>>

\* for separator in [...]: if separator in history_text: split, strip, break
\* else: [history_text]
RECURSIVE split_on_first_separator(_, _)
split_on_first_separator(text, seps) ==
    IF seps = <<>> THEN <<text>>
    ELSE IF str_in(Head(seps), text) THEN strip_each(split(text, Head(seps)))
    ELSE split_on_first_separator(text, Tail(seps))

parse_medical_history(text_arg) ==
    IF ~truthy(text_arg) THEN <<>>
    ELSE LET text == normalize_value(text_arg).v
         IN IF text \in {s_none, s_no, s_nothing, s_na} THEN <<>>
            ELSE SelectSeq(split_on_first_separator(text, separators),
                           LAMBDA item : item # <<>> /\ item \notin {s_none, s_no, s_nothing})

----------------------------------------------------------------------------
(* parse_medical_history as a state machine *)

HistoryChars == {"a", "d", "n", "o", "N", "/", ",", ";", "&", " "}
HistoryTexts == {None} \cup {Str(s) : s \in StringsUpTo(HistoryChars, MaxHistoryLen)}

InitHistory ==
    /\ op = "idle"
    /\ GuidanceIdle
    /\ SchemaIdle
    /\ ServiceIdle

ParseMedicalHistory ==
    \E t \in HistoryTexts :
        /\ op = "idle"
        /\ op' = "parse_medical_history"
        /\ history_text' = t
        /\ medical_history' = parse_medical_history(t)
        /\ UNCHANGED <<guidance_vars, answers, schema, raised, service_vars>>

NextHistory == ParseMedicalHistory

SpecHistory == InitHistory /\ [][NextHistory]_vars

----------------------------------------------------------------------------
(* Claims about parse_medical_history *)

\* C8 as stated: the returned list has no empty token, none of the negation
\* tokens none / no / nothing / n/a, and no entry twice.
C8_HistoryIsSetOfRealEntries ==
    op = "parse_medical_history" =>
        /\ \A i \in DOMAIN medical_history :
              medical_history[i] \notin {<<>>, s_none, s_no, s_nothing, s_na}
        /\ \A i, j \in DOMAIN medical_history :
              i # j => medical_history[i] # medical_history[j]

claimed_separators == <<(<<",">>), (<<";">>), (<<" ", "a", "n", "d", " ">>), (<<"&">>)>>

\* C9 as stated: a history text that is not a negation is split on the first
\* separator it contains among "," ";" " and " "&"; a text with none of the
\* four is returned as the one item equal to the normalized text.
C9_SplitOnFirstClaimedSeparator ==
    (op = "parse_medical_history" /\ truthy(history_text)
        /\ normalize_value(history_text).v \notin {<<>>, s_none, s_no, s_nothing, s_na}) =>
        LET text == normalize_value(history_text).v
        IN IF \A i \in DOMAIN claimed_separators : ~str_in(claimed_separators[i], text)
           THEN medical_history = <<text>>
           ELSE medical_history =
                    SelectSeq(split_on_first_separator(text, claimed_separators),
                              LAMBDA item : item # <<>> /\ item \notin {s_none, s_no, s_nothing})

----------------------------------------------------------------------------
(* medical_schema.build_medical_schema *)

isdigit(ch) == ch \in {"0", "1", "2", "3", "4", "5", "6", "7", "8", "9"}

digit_value(ch) ==
    CASE ch = "0" -> 0 [] ch = "1" -> 1 [] ch = "2" -> 2 [] ch = "3" -> 3
      [] ch = "4" -> 4 [] ch = "5" -> 5 [] ch = "6" -> 6 [] ch = "7" -> 7
      [] ch = "8" -> 8 [] ch = "9" -> 9

\* the leading run of digits of s
RECURSIVE leading_digits(_)
leading_digits(s) ==
    IF s = <<>> THEN <<>>
    ELSE IF isdigit(Head(s)) THEN <<Head(s)>> \o leading_digits(Tail(s))
    ELSE <<>>

\* re.search(r'\d+', s).group(): the first run of digits; <<>> when there is no match
RECURSIVE search_digits(_)
search_digits(s) ==
    IF s = <<>> THEN <<>>
    ELSE IF isdigit(Head(s)) THEN leading_digits(s)
    ELSE search_digits(Tail(s))

\* int(digits) for a non-empty string of decimal digits
RECURSIVE int_of_digits(_)
int_of_digits(digits) ==
    IF digits = <<>> THEN 0
    ELSE 10 * int_of_digits(SubSeq(digits, 1, Len(digits) - 1))
         + digit_value(digits[Len(digits)])

Returned(v) == [raised |-> "none", v |-> v]
Raised(exc) == [raised |-> exc]

\* int(x) for an int, a bool (a subclass of int) or a float: truncation toward
\* zero; int(inf) raises OverflowError and int(nan) ValueError
int_of_number(x) ==
    CASE x.t = "int" -> Returned(PyInt(x.v))
      [] x.t = "bool" -> Returned(PyInt(IF x.v THEN 1 ELSE 0))
      [] x.t = "float" /\ "tenths" \in DOMAIN x ->
            Returned(PyInt(IF x.tenths >= 0 THEN x.tenths \div 10
                         ELSE -((-x.tenths) \div 10)))
      [] x.t = "float" /\ "special" \in DOMAIN x ->
            IF x.special = "nan" THEN Raised("ValueError") ELSE Raised("OverflowError")

\* the q_age branch: the value stored in demographics.age, or the exception
age_from_answer(age_text) ==
    IF IsStr(age_text)
    THEN LET age_match == search_digits(age_text.v)
         IN IF age_match # <<>> THEN Returned(PyInt(int_of_digits(age_match)))
            ELSE Returned(None)
    ELSE IF age_text.t \in {"int", "bool", "float"} THEN int_of_number(age_text)
    ELSE Returned(None)

\* dict.update: the items of d2 added to d1, replacing those with the same key
update(d1, d2) ==
    [k \in DOMAIN d1 \cup DOMAIN d2 |-> IF k \in DOMAIN d2 THEN d2[k] ELSE d1[k]]

\* copy.deepcopy(MEDICAL_SCHEMA_TEMPLATE) updated with copy.deepcopy(DYNAMIC_FIELDS)
schema_template == update(MEDICAL_SCHEMA_TEMPLATE, DYNAMIC_FIELDS)

\* lines 79-103 on the schema the copies gave; the result is [raised, v]: v is
\* the schema when the call returns.  A q_age that yields no number, and an
\* absent key, leave the field as it was copied.
build_medical_schema_on(base, a) ==
    LET age == IF "q_age" \in DOMAIN a THEN age_from_answer(a["q_age"]) ELSE Returned(None)
    IN IF age.raised # "none" THEN Raised(age.raised)
       ELSE Returned(
            [base EXCEPT
                !.demographics =
                    [age |-> IF age.v = None THEN base.demographics.age ELSE age.v,
                     gender |-> IF "q_gender" \in DOMAIN a
                                THEN normalize_value(a["q_gender"])
                                ELSE base.demographics.gender],
                !.medical_history =
                    IF "q_med_history" \in DOMAIN a
                    THEN parse_medical_history(a["q_med_history"]) ELSE @,
                !.current_complaint =
                    IF "q_current_ailment" \in DOMAIN a
                    THEN normalize_value(a["q_current_ailment"]) ELSE @,
                !.pregnancy_status =
                    IF "q_pregnant" \in DOMAIN a
                    THEN normalize_value(a["q_pregnant"]) ELSE @])

\* one call while the module templates are as the import left them
build_medical_schema(a) == build_medical_schema_on(schema_template, a)

----------------------------------------------------------------------------
(* build_medical_schema as a state machine *)

AgeChars == {"3", "0", "y", " "}

AgeAnswers ==
    {Str(s) : s \in StringsUpTo(AgeChars, MaxAgeTextLen)}
    \cup {PyInt(n) : n \in {-1, 0, 30}}
    \cup {PyFloat(n) : n \in {-25, -5, 0, 9, 305}}
    \cup {FloatSpecial(n) : n \in {"inf", "-inf", "nan"}}
    \cup {PyBool(TRUE), None, PyList(<<>>)}

\* the answers a questionnaire can give under each key
AnswersFor(key) ==
    CASE key = "q_age" -> AgeAnswers
      [] key = "q_gender" -> {Str(<<" ", "A">>)}
      [] key = "q_med_history" -> {Str(<<"a", ",", "N", "o", ",", "d">>)}
      [] key = "q_current_ailment" -> {Str(<<"B", "a", "d", " ">>)}
      [] key = "q_pregnant" -> {Str(<<"N", "o">>), PyBool(FALSE)}
      [] key = "q_name" -> {Str(<<"A", "n", "n">>)}

QuestionKeys == {"q_age", "q_gender", "q_med_history", "q_current_ailment",
                 "q_pregnant", "q_name"}

\* marks a key the answers do not have
Absent == [t |-> "absent"]

\* every dict with some of the question keys, each with one of its answers
AnswerMaps ==
    {[k \in {k \in QuestionKeys : c[k] # Absent} |-> c[k]] :
        c \in [q_age : AnswersFor("q_age") \cup {Absent},
               q_gender : AnswersFor("q_gender") \cup {Absent},
               q_med_history : AnswersFor("q_med_history") \cup {Absent},
               q_current_ailment : AnswersFor("q_current_ailment") \cup {Absent},
               q_pregnant : AnswersFor("q_pregnant") \cup {Absent},
               q_name : AnswersFor("q_name") \cup {Absent}]}

InitSchema ==
    /\ op = "idle"
    /\ GuidanceIdle
    /\ SchemaIdle
    /\ ServiceIdle

BuildMedicalSchema ==
    \E a \in AnswerMaps :
        LET r == build_medical_schema(a)
        IN /\ op = "idle"
           /\ op' = "build_medical_schema"
           /\ answers' = a
           /\ raised' = r.raised
           /\ schema' = IF r.raised = "none" THEN r.v ELSE NoSchema
           /\ UNCHANGED <<guidance_vars, history_text, medical_history, service_vars>>

NextSchema == BuildMedicalSchema

SpecSchema == InitSchema /\ [][NextSchema]_vars

----------------------------------------------------------------------------
(* Claims about build_medical_schema *)

FirstDigitRunValue(s) ==
    LET starts == {i \in DOMAIN s : isdigit(s[i])}
        first == CHOOSE i \in starts : \A j \in starts : i <= j
        last == CHOOSE k \in first..Len(s) :
                    /\ \A j \in first..k : isdigit(s[j])
                    /\ (k = Len(s) \/ ~isdigit(s[k + 1]))
        Value[k \in (first - 1)..last] ==
            IF k = first - 1 THEN 0 ELSE 10 * Value[k - 1] + digit_value(s[k])
    IN Value[last]

\* C10 as stated: the call never raises; a textual q_age gives the value of its
\* first run of digits; a numeric one its value truncated to an integer; a
\* text with no digit, or no q_age, leaves age unset.
C10_AgeExtractedNeverRaises ==
    op = "build_medical_schema" =>
        /\ raised = "none"
        /\ LET age == schema.demographics.age
           IN IF "q_age" \notin DOMAIN answers THEN age = None
              ELSE LET q == answers["q_age"]
                   IN CASE IsStr(q) ->
                             IF \E i \in DOMAIN q.v : isdigit(q.v[i])
                             THEN age = PyInt(FirstDigitRunValue(q.v))
                             ELSE age = None
                        [] q.t = "int" -> age = PyInt(q.v)
                        [] q.t = "float" /\ "tenths" \in DOMAIN q ->
                             /\ age.t = "int"
                             /\ 10 * age.v <= q.tenths + 9
                             /\ 10 * age.v >= q.tenths - 9
                             /\ (q.tenths >= 0 => 10 * age.v <= q.tenths)
                             /\ (q.tenths <= 0 => 10 * age.v >= q.tenths)
                        [] OTHER -> TRUE

----------------------------------------------------------------------------
(* build_medical_schema called repeatedly, while callers mutate the         *)
(* schemas they were given.  A copy is a value together with the fields     *)
(* whose object it shares with the dict it was copied from.                 *)

\* the fields of a schema that hold a mutable object (a dict or a list)
ContainerFields ==
    {"demographics", "medical_history", "red_flags", "allergies", "medications",
     "observations", "follow_up_answers", "derived_findings", "llm_advice"}

\* copy.deepcopy(d): an equal value none of whose objects is an object of d
deepcopy(d) == [v |-> d, shared |-> {}]

\* an in-place write to the fields `fields` of a schema that shares them with
\* the templates is a write to the templates
write_through(tpl, fields, v) ==
    [t \in DOMAIN tpl |->
        [f \in DOMAIN tpl[t] |-> IF f \in fields THEN v[f] ELSE tpl[t][f]]]

\* what a schema that shares objects with the templates shows after the
\* templates changed
alias_view(s, tpl) ==
    [s EXCEPT !.v = [f \in DOMAIN s.v |->
                        IF f \in s.shared
                        THEN update(tpl.MEDICAL_SCHEMA_TEMPLATE, tpl.DYNAMIC_FIELDS)[f]
                        ELSE s.v[f]]]

\* a whole call: the two copies, then the questionnaire mapping.  Lines 87-92
\* write into the demographics dict of the copy, line 95 rebinds
\* medical_history to a new list.
build_medical_schema_call(tpl, a) ==
    LET c1 == deepcopy(tpl.MEDICAL_SCHEMA_TEMPLATE)
        c2 == deepcopy(tpl.DYNAMIC_FIELDS)
        r == build_medical_schema_on(update(c1.v, c2.v), a)
        shared == (c1.shared \cup c2.shared)
                    \ (IF "q_med_history" \in DOMAIN a THEN {"medical_history"} ELSE {})
    IN IF r.raised # "none" THEN [raised |-> r.raised, templates |-> tpl]
       ELSE [raised |-> "none", v |-> r.v, shared |-> shared,
             templates |-> write_through(tpl, shared \cap {"demographics"}, r.v)]

\* what the conversation does to a schema it holds: it appends an observation
\* or a piece of advice, records a follow-up answer, corrects the age
MutatedFields == {"observations", "follow_up_answers", "demographics"}

mutate(v, f) ==
    CASE f = "demographics" -> [v EXCEPT !.demographics.age = PyInt(99)]
      [] f = "follow_up_answers" ->
            [v EXCEPT !.follow_up_answers = update(@, [q1 |-> Str(<<"y">>)])]
      [] OTHER -> [v EXCEPT ![f] = Append(@, Str(<<"y">>))]

MaxCalls == 2
MaxObservations == 1

CallAnswerMaps ==
    {[k \in {k \in QuestionKeys : c[k] # Absent} |-> c[k]] :
        c \in [q_age : {Str(<<"3", "0", "y">>), FloatSpecial("inf"), Absent},
               q_gender : AnswersFor("q_gender") \cup {Absent},
               q_med_history : AnswersFor("q_med_history") \cup {Absent},
               q_current_ailment : {Absent},
               q_pregnant : {Absent},
               q_name : AnswersFor("q_name") \cup {Absent}]}

InitCalls ==
    /\ op = "idle"
    /\ GuidanceIdle
    /\ SchemaIdle
    /\ ServiceIdle

BuildSchemaCall ==
    \E a \in CallAnswerMaps :
        LET r == build_medical_schema_call(templates, a)
        IN /\ Len(returned) < MaxCalls
           /\ op' = "build_medical_schema"
           /\ answers' = a
           /\ raised' = r.raised
           /\ schema' = IF r.raised = "none" THEN r.v ELSE NoSchema
           /\ templates' = r.templates
           /\ returned' =
                IF r.raised = "none"
                THEN [i \in 1..Len(returned) |-> alias_view(returned[i], r.templates)]
                        \o <<[v |-> r.v, shared |-> r.shared]>>
                ELSE returned
           /\ UNCHANGED <<guidance_vars, history_text, medical_history,
                          report_vars, chat_vars, engine_vars, prompt_vars>>

MutateReturned ==
    \E i \in DOMAIN returned, f \in MutatedFields :
        LET v == mutate(returned[i].v, f)
            tpl == IF f \in returned[i].shared
                   THEN write_through(templates, {f}, v) ELSE templates
        IN /\ v # returned[i].v
           /\ (f = "observations" => Len(v[f]) <= MaxObservations)
           /\ op' = "mutate"
           /\ templates' = tpl
           /\ returned' = [j \in 1..Len(returned) |->
                            IF j = i THEN [returned[i] EXCEPT !.v = v]
                            ELSE alias_view(returned[j], tpl)]
           /\ UNCHANGED <<guidance_vars, schema_vars, report_vars, chat_vars,
                          engine_vars, prompt_vars>>

NextCalls == BuildSchemaCall \/ MutateReturned

SpecCalls == InitCalls /\ [][NextCalls]_vars

----------------------------------------------------------------------------
(* Claim about the frame of build_medical_schema *)

DynamicDefaults(s) ==
    /\ s.observations = <<>>
    /\ s.derived_findings = <<>>
    /\ s.llm_advice = <<>>
    /\ s.follow_up_answers = <<>>
    /\ s.urgency = None
    /\ s.confidence = None

RecognizedKeys == {"q_age", "q_gender", "q_med_history", "q_current_ailment",
                   "q_pregnant"}

\* the part of C11 about the calls that return: the schema has the dynamic
\* defaults and is what the recognized keys alone give, no returned schema
\* shares an object with the templates, and the templates are as imported
ReturnedSchemasFresh ==
    /\ templates = [MEDICAL_SCHEMA_TEMPLATE |-> MEDICAL_SCHEMA_TEMPLATE,
                    DYNAMIC_FIELDS |-> DYNAMIC_FIELDS]
    /\ \A i \in DOMAIN returned : returned[i].shared = {}
    /\ (op = "build_medical_schema" /\ raised = "none") =>
            /\ DynamicDefaults(schema)
            /\ LET a == [k \in DOMAIN answers \cap RecognizedKeys |-> answers[k]]
               IN schema = build_medical_schema(a).v

\* C11 as stated: for every answers mapping the call returns a schema with the
\* dynamic fields at their defaults, unrecognized question keys change
\* nothing, and after any sequence of calls and mutations of returned schemas
\* every call gives fresh structures and leaves the templates unmodified.
C11_EveryCallReturnsFreshDefaults ==
    /\ (op = "build_medical_schema" => raised = "none")
    /\ ReturnedSchemasFresh

----------------------------------------------------------------------------
(* llm_client._extract_age_number *)

\* int(s) for a str: surrounding whitespace is dropped, one sign is allowed,
\* then decimal digits, where single underscores may stand between digits
int_of_str(s) ==
    LET t == strip(s)
        signed == t # <<>> /\ Head(t) \in {"+", "-"}
        body == IF signed THEN Tail(t) ELSE t
        valid == /\ body # <<>>
                 /\ isdigit(body[1])
                 /\ isdigit(body[Len(body)])
                 /\ \A i \in DOMAIN body : isdigit(body[i]) \/ body[i] = "_"
                 /\ \A i \in 1..(Len(body) - 1) : ~(body[i] = "_" /\ body[i + 1] = "_")
        n == int_of_digits(SelectSeq(body, isdigit))
    IN IF valid THEN Returned(IF signed /\ Head(t) = "-" THEN -n ELSE n)
       ELSE Raised("ValueError")

\* (int(parts[0]) + int(parts[1])) // 2: floor division
range_middle_taking_upper(lo, hi) == hi

range_middle(lo, hi) == (lo + hi) \div 2

\* the bare excepts turn every failure of int() into the next attempt
\* (lines 352-353) or into 0 (lines 358-359)
extract_age_number(age_arg) ==
    IF ~truthy(age_arg) THEN 0
    ELSE LET s == age_arg.v
             is_range == str_in(<<"_">>, s)
             parts == split(s, <<"_">>)
             lo == IF is_range THEN int_of_str(parts[1]) ELSE Raised("not tried")
             hi == IF is_range THEN int_of_str(parts[2]) ELSE Raised("not tried")
             whole == int_of_str(s)
         IN IF is_range /\ lo.raised = "none" /\ hi.raised = "none"
            THEN range_middle(lo.v, hi.v)
            ELSE IF whole.raised = "none" THEN whole.v
            ELSE 0

MaxAgeStrLen == 5

AgeStrChars == {"2", "3", "5", "6", "_", "x", " ", "-"}

\* an age answer: None when no question asked for the age, else any text
AgeStrings == {None} \cup {Str(s) : s \in StringsUpTo(AgeStrChars, MaxAgeStrLen)}

InitAge ==
    /\ op = "idle"
    /\ GuidanceIdle
    /\ SchemaIdle
    /\ ServiceIdle

ExtractAgeNumber ==
    /\ op = "idle"
    /\ \E a \in AgeStrings :
        /\ op' = "_extract_age_number"
        /\ age_str' = a
        /\ age_number' = extract_age_number(a)
        /\ UNCHANGED <<guidance_vars, schema_vars, calls_vars, responses,
                       report_symptom_data, llm, report, chat_vars, engine_vars, prompt_vars>>

NextAge == ExtractAgeNumber

SpecAge == InitAge /\ [][NextAge]_vars

----------------------------------------------------------------------------
(* Claim about _extract_age_number *)

\* a numeric text: decimal digits, possibly signed, possibly padded with blanks
IsNumeric(s) ==
    LET t == strip(s)
        body == IF t # <<>> /\ Head(t) \in {"+", "-"} THEN Tail(t) ELSE t
    IN body # <<>> /\ \A i \in DOMAIN body : isdigit(body[i])

NumericValue(s) ==
    IF "-" \in Range(s) THEN -FirstDigitRunValue(s) ELSE FirstDigitRunValue(s)

Underscores(s) == {i \in DOMAIN s : s[i] = "_"}

----------------------------------------------------------------------------
(* llm_client.generate_medical_report *)

\* a fixed text of the source, kept as one unit: only compared, never scanned
Text(s) == Str(<<s>>)

\* an f-string with one placeholder: the fixed text, then the text put in
Fmt(template, arg) == Str(<<template>> \o arg.v)

\* `x or default`
or_default(x, default) == IF truthy(x) THEN x ELSE default

\* lines 138-145 for one response; q.lower() is scanned for the hints
scan_response(acc, qa) ==
    LET q == lower(qa.question)
        a == qa.answer
    IN IF str_in(<<"n", "a", "m", "e">>, q)
       THEN [acc EXCEPT !.patient_name = a]
       ELSE IF str_in(<<"c", "h", "i", "e", "f", " ", "c", "o", "m", "p", "l", "a", "i", "n", "t">>, q)
               \/ str_in(<<"c", "u", "r", "r", "e", "n", "t", " ", "a", "i", "l", "m", "e", "n", "t">>, q)
       THEN [acc EXCEPT !.chief_complaint = a]
       ELSE IF str_in(<<"a", "g", "e">>, q) /\ ~truthy(acc.patient_age)
       THEN [acc EXCEPT !.patient_age = a]
       ELSE IF str_in(<<"s", "e", "x">>, q) \/ str_in(<<"g", "e", "n", "d", "e", "r">>, q)
       THEN [acc EXCEPT !.patient_gender = a]
       ELSE acc

\* the loop of lines 132-145
RECURSIVE scan_responses(_, _)
scan_responses(acc, rs) ==
    IF rs = <<>> THEN acc
    ELSE scan_responses(scan_response(acc, Head(rs)), Tail(rs))

\* lines 127-145: the four facts taken from the responses
extract_patient_facts(rs) ==
    scan_responses([chief_complaint |-> None, patient_name |-> None,
                    patient_age |-> None, patient_gender |-> None], rs)

\* symptom_data.get("default_urgency", "green_home_care") if symptom_data
\* else "green_home_care": None and the empty dict are falsy
default_urgency(sd) ==
    IF sd = None \/ DOMAIN sd = {} THEN Text("green_home_care")
    ELSE dict_get(sd, "default_urgency", Text("green_home_care"))

patient_info(facts) ==
    [name |-> or_default(facts.patient_name, Text("Unknown")),
     age |-> PyInt(extract_age_number(facts.patient_age)),
     gender |-> or_default(facts.patient_gender, Text("unknown"))]

general_assessment_with_no_cause == PyList(<<>>)

\* lines 386-413
general_assessment ==
    PyList(<<[id |-> Text("general_assessment"),
       title |-> Text("Various possible conditions"),
       short_description |-> Text("Multiple conditions could explain symptoms"),
       subtitle |-> Text("Requires professional medical evaluation"),
       severity |-> Text("unknown"),
       probability |-> PyFloat(10),
       detail |->
         [about_this |->
            <<Text("Multiple conditions could explain your symptoms."),
              Text("A medical professional can provide accurate diagnosis."),
              Text("Your specific case requires individual assessment.")>>,
          how_common |->
            [percentage |-> PyInt(50),
             description |->
                Text("Varies widely based on specific symptoms and history")],
          what_you_can_do_now |->
            <<Text("Document any changes in your symptoms"),
              Text("Monitor your condition closely"),
              Text("Keep track of when symptoms occur"),
              Text("Note what makes symptoms better or worse")>>,
          warning |-> Text("Seek immediate medical attention if symptoms worsen or new concerning symptoms develop")]]>>)

\* env holds what uuid.uuid4() and datetime.utcnow() give this call
generate_fallback_report(facts, sd, env) ==
    LET topic == or_default(facts.chief_complaint, Text("general_health"))
    IN [report_id |-> env.uuid,
        assessment_topic |-> topic,
        generated_at |-> env.now,
        patient_info |-> patient_info(facts),
        summary |-> PyList(<<Fmt("Assessment received for {topic}.", topic),
                             Text("Your symptoms have been documented."),
                             Text("A healthcare professional should review your case.")>>),
        possible_causes |-> general_assessment,
        advice |-> PyList(<<Text("Document any changes in your symptoms."),
                            Text("Monitor your condition closely."),
                            Text("Seek medical attention if symptoms worsen."),
                            Text("Consult with a healthcare provider for proper diagnosis.")>>),
        urgency_level |-> default_urgency(sd)]

\* lines 301-327: the parsed object gets its metadata and patient info, then
\* each required field that is missing gets a default; a field the object
\* carries is kept as it is
complete_llm_report(object, facts, sd, env) ==
    LET stamped == update(object, [report_id |-> env.uuid,
                                   generated_at |-> env.now,
                                   patient_info |-> patient_info(facts)])
        required ==
            [assessment_topic |-> or_default(facts.chief_complaint, Text("general_health")),
             summary |->
                PyList(<<Text("Assessment completed based on provided information.")>>),
             possible_causes |-> PyList(<<>>),
             advice |->
                PyList(<<Text("Consult with a healthcare provider for personalized advice.")>>),
             urgency_level |-> default_urgency(sd)]
    IN update(required, stamped)

\* the whole function.  service.key: CEREBRAS_API_KEY is set; service.outcome:
\* what requests.post and the decoding of its response come to
generate_medical_report(rs, sd, service, env) ==
    LET facts == extract_patient_facts(rs)
    IN IF service.key /\ service.outcome = "object"
       THEN complete_llm_report(service.object, facts, sd, env)
       ELSE generate_fallback_report(facts, sd, env)

\* the HTTP requests of a function that posts again after a failed call
report_requests_retrying(service) ==
    IF ~service.key THEN <<>>
    ELSE IF service.outcome = "object" THEN <<"requests.post">>
    ELSE <<"requests.post", "requests.post">>

\* the HTTP requests the function makes
report_requests(service) == IF service.key THEN <<"requests.post">> ELSE <<>>

----------------------------------------------------------------------------
(* generate_medical_report as a state machine *)

MaxResponses == 2

QA(q, a) == [question |-> q, answer |-> Str(a)]

\* questionnaire and follow-up entries
ResponsePool ==
    {QA(<<"N", "a", "m", "e">>, <<"A", "n", "n">>),
     QA(<<"n", "i", "c", "k", "n", "a", "m", "e">>, <<"B", "o">>),
     QA(<<"A", "G", "E">>, <<"2", "6", "_", "3", "5">>),
     QA(<<"a", "g", "e">>, <<"4", "2">>),
     QA(<<"G", "e", "n", "d", "e", "r">>, <<"f">>),
     QA(<<"s", "e", "x">>, <<"m">>),
     QA(<<"C", "h", "i", "e", "f", " ", "C", "o", "m", "p", "l", "a", "i", "n", "t">>, <<"c", "o", "u", "g", "h">>),
     QA(<<"c", "u", "r", "r", "e", "n", "t", " ", "a", "i", "l", "m", "e", "n", "t">>, <<"f", "e", "v", "e", "r">>),
     QA(<<"w", "e", "i", "g", "h", "t">>, <<"7", "0">>)}

ResponseLists == UNION {[1..n -> ResponsePool] : n \in 0..MaxResponses}

\* symptom_data: absent, empty, or an entry of the decision tree
SymptomData ==
    {None, <<>>,
     [label |-> Text("Cough")],
     [label |-> Text("Chest pain"), default_urgency |-> Text("red_emergency")],
     [label |-> Text("Chest pain"), default_urgency |-> Text("emergency")]}

\* the JSON objects the model may answer with: each field present or not
LLMObjects ==
    {[k \in {k \in {"summary", "advice", "urgency_level", "assessment_topic"} :
                c[k] # Absent} |-> c[k]] :
        c \in [summary : {Absent, PyList(<<>>), PyList(<<Text("Likely a common cold.")>>)},
               advice : {Absent, PyList(<<>>), PyList(<<Text("Rest and drink fluids.")>>)},
               urgency_level : {Absent, Text("yellow_doctor_visit"), Text("high")},
               assessment_topic : {Absent, Text("cold")}]}

\* "timeout", "connection error": requests.post raises; "status": not 200;
\* "bad body": response.json() or result["choices"][0]["message"]["content"]
\* raises; "unparsable": json.loads raises JSONDecodeError; "not an object":
\* json.loads gives a list, a number, a string or null, and line 304 raises
\* TypeError; "object": json.loads gives a dict
FailedCalls ==
    {[key |-> TRUE, outcome |-> o] :
        o \in {"timeout", "connection error", "status", "bad body",
               "unparsable", "not an object"}}

ReportServices ==
    {[key |-> FALSE, outcome |-> "not called"]}
    \cup FailedCalls
    \cup {[key |-> TRUE, outcome |-> "object", object |-> o] : o \in LLMObjects}

ReportEnvs == {[uuid |-> Text("uuid-1"), now |-> Text("2026-01-01T00:00:00Z")],
               [uuid |-> Text("uuid-2"), now |-> Text("2026-01-02T00:00:00Z")]}

InitReport ==
    /\ op = "idle"
    /\ GuidanceIdle
    /\ SchemaIdle
    /\ ServiceIdle

GenerateMedicalReport ==
    /\ op = "idle"
    /\ \E rs \in ResponseLists, sd \in SymptomData, service \in ReportServices,
          env \in ReportEnvs :
        /\ op' = "generate_medical_report"
        /\ responses' = rs
        /\ report_symptom_data' = sd
        /\ llm' = service
        /\ report' = generate_medical_report(rs, sd, service, env)
        /\ events' = report_requests(service)
        /\ UNCHANGED <<guidance_vars, schema_vars, calls_vars, age_str, age_number,
                       sessions, issued, request, response, engine_vars, prompt_vars>>

NextReport == GenerateMedicalReport

SpecReport == InitReport /\ [][NextReport]_vars

----------------------------------------------------------------------------
(* Claims about generate_medical_report *)

UrgencyEnum ==
    {Text("red_emergency"), Text("yellow_doctor_visit"), Text("green_home_care")}

\* C12 as stated: whatever the external call comes to and whatever
\* symptom_data is, the returned report has a non-empty summary list, a
\* non-empty advice list and an urgency_level of the three-value enum.
C12_ReportAlwaysUsable ==
    op = "generate_medical_report" =>
        /\ report.summary.v # <<>>
        /\ report.advice.v # <<>>
        /\ report.urgency_level \in UrgencyEnum

ReportFields ==
    {"report_id", "assessment_topic", "generated_at", "patient_info", "summary",
     "possible_causes", "advice", "urgency_level"}

\* every field of the report is there and holds something
Populated(r) ==
    /\ DOMAIN r = ReportFields
    /\ truthy(r.report_id)
    /\ truthy(r.assessment_topic)
    /\ truthy(r.generated_at)
    /\ DOMAIN r.patient_info = {"name", "age", "gender"}
    /\ truthy(r.patient_info.name)
    /\ r.patient_info.age.t = "int"
    /\ truthy(r.patient_info.gender)
    /\ r.summary.v # <<>>
    /\ r.possible_causes.v # <<>>
    /\ r.advice.v # <<>>
    /\ truthy(r.urgency_level)

\* the external call did not give a usable object
CallFailed == ~llm.key \/ llm.outcome # "object"

\* C13: when the call errors, answers with a status other than 200 or with
\* content that cannot be parsed, or when no credential is configured,
\* generate_medical_report does not raise and returns the fallback report:
\* all eight fields populated, exactly one cause, whose id is
\* general_assessment and whose probability is 1.0.
C13_FailureGivesFullFallback ==
    (op = "generate_medical_report" /\ CallFailed) =>
        /\ raised = "none"
        /\ Populated(report)
        /\ Len(report.possible_causes.v) = 1
        /\ report.possible_causes.v[1].id = Text("general_assessment")
        /\ report.possible_causes.v[1].probability = PyFloat(10)

C13_Witness ==
    /\ op = "generate_medical_report"
    /\ llm.key
    /\ llm.outcome = "unparsable"
    /\ responses # <<>>
    /\ report.possible_causes.v[1].id = Text("general_assessment")

\* the answer of the first response whose question holds one of the hints,
\* None when there is none
FirstAnswer(hints) ==
    LET hits == {i \in DOMAIN responses :
                    \E h \in hints : str_in(h, lower(responses[i].question))}
    IN IF hits = {} THEN None
       ELSE responses[CHOOSE i \in hits : \A j \in hits : i <= j].answer

\* C14 as stated: name, chief complaint, age and gender are each taken from
\* the first response whose question holds the field's hint, whatever the
\* case of the question; a later response with the same hint changes nothing.
\* The extracted values are read off the report: patient_info, and the
\* assessment topic when the fallback wrote it.
C14_FirstMatchWinsPerField ==
    op = "generate_medical_report" =>
        /\ report.patient_info.name =
                or_default(FirstAnswer({<<"n", "a", "m", "e">>}), Text("Unknown"))
        /\ report.patient_info.gender =
                or_default(FirstAnswer({<<"s", "e", "x">>, <<"g", "e", "n", "d", "e", "r">>}), Text("unknown"))
        /\ report.patient_info.age =
                PyInt(extract_age_number(FirstAnswer({<<"a", "g", "e">>})))
        /\ CallFailed =>
                report.assessment_topic =
                    or_default(FirstAnswer({<<"c", "h", "i", "e", "f", " ", "c", "o", "m", "p", "l", "a", "i", "n", "t">>, <<"c", "u", "r", "r", "e", "n", "t", " ", "a", "i", "l", "m", "e", "n", "t">>}), Text("general_health"))

----------------------------------------------------------------------------
(* chatbot_routes.build_report_context.  The rule characters and the        *)
(* warning sign of the source's fixed texts are written in ASCII.           *)

\* the strs of a list of texts
texts(list) == [i \in DOMAIN list |-> list[i].v]

\* int(prob * 100) as the f-string shows it, for an int or a float in tenths
percent(prob) ==
    IF prob.t = "int" THEN ToString(prob.v * 100) ELSE ToString(prob.tenths * 10)

\* lines 119-123: main_report after the loop, the last report flagged is_main
main_report(rs) ==
    LET mains == SelectSeq(rs, LAMBDA r : dict_get(r, "is_main", FALSE))
    IN IF mains = <<>> THEN None ELSE mains[Len(mains)]

\* lines 119-123: other_reports after the loop
other_reports(rs) == SelectSeq(rs, LAMBDA r : ~dict_get(r, "is_main", FALSE))

\* lines 148-162: the lines of one cause
cause_lines(c) ==
    LET title == dict_get(c, "title", Text("Unknown"))
        severity == dict_get(c, "severity", Text("unknown"))
        prob == dict_get(c, "probability", PyInt(0))
        short == dict_get(c, "short_description", Str(<<>>))
        detail == dict_get(c, "detail", <<>>)
        what_to_do == dict_get(detail, "what_you_can_do_now", PyList(<<>>))
        warning == dict_get(detail, "warning", Str(<<>>))
    IN <<(<<"  - ">> \o title.v \o <<" (">> \o severity.v
          \o <<", ", percent(prob), "% probability): ">> \o short.v)>>
       \o (IF what_to_do.v # <<>>
           THEN <<(<<"    What patient can do: ">> \o join(<<"; ">>, texts(what_to_do.v)))>>
           ELSE <<>>)
       \o (IF warning.v # <<>> THEN <<(<<"    Warning: ">> \o warning.v)>> ELSE <<>>)

\* the loop of lines 147-162
RECURSIVE all_cause_lines(_)
all_cause_lines(causes) ==
    IF causes = <<>> THEN <<>>
    ELSE cause_lines(Head(causes)) \o all_cause_lines(Tail(causes))

PRIMARY_TOPIC == "-- CURRENT ASSESSMENT REPORT (Primary Topic) --"

\* lines 128-168: the sections of the main report
main_sections(main) ==
    LET rd == dict_get(main, "report_data", <<>>)
        urgency == dict_get(rd, "urgency_level", Text("unknown"))
        summary == dict_get(rd, "summary", PyList(<<>>))
        causes == dict_get(rd, "possible_causes", PyList(<<>>))
        advice == dict_get(rd, "advice", PyList(<<>>))
    IN <<(<<PRIMARY_TOPIC, "\n",
            "This conversation is a continuation of a medical assessment report.", "\n",
            "The user may ask clarifications, question accuracy, or seek explanation.", "\n",
            "Treat this report as the primary topic unless the user shifts topic.", "\n">>),
         (<<"Urgency Level: ">> \o urgency.v)>>
       \o (IF summary.v # <<>>
           THEN <<(<<"Summary: ">> \o join(<<" ">>, texts(summary.v)))>> ELSE <<>>)
       \o (IF causes.v # <<>>
           THEN <<(<<"Possible Causes:", "\n">>
                   \o join(<<"\n">>, all_cause_lines(causes.v)))>>
           ELSE <<>>)
       \o (IF advice.v # <<>>
           THEN <<(<<"Advice: ">> \o join(<<"; ">>, texts(advice.v)))>> ELSE <<>>)

\* lines 174-179: the line of one non-main report
history_line(r) ==
    LET rd == dict_get(r, "report_data", <<>>)
        date == dict_get(r, "generated_at", Text("unknown date"))
        summary == dict_get(rd, "summary", PyList(<<>>))
        urgency == dict_get(rd, "urgency_level", Str(<<>>))
        brief == IF summary.v # <<>> THEN summary.v[1] ELSE Text("No summary")
    IN <<"  - ">> \o date.v \o <<": ">> \o brief.v \o <<" (Urgency: ">> \o urgency.v
       \o <<")">>

\* lines 171-180
history_sections(others) ==
    IF others = <<>> THEN <<>>
    ELSE <<join(<<"\n">>, <<(<<"Past Medical Reports:">>)>>
                          \o [i \in DOMAIN others |-> history_line(others[i])])>>

\* the whole function
build_report_context(rs) ==
    IF rs = <<>> THEN Str(<<>>)
    ELSE LET main == main_report(rs)
         IN Str(join(<<"\n", "\n">>,
                     (IF main = None THEN <<>> ELSE main_sections(main))
                     \o history_sections(other_reports(rs))))

\* s.replace(old, new) for a non-empty old: the occurrences found from the
\* left, none overlapping another
RECURSIVE replace(_, _, _)
replace(s, old, new) ==
    IF Len(s) < Len(old) THEN s
    ELSE IF SubSeq(s, 1, Len(old)) = old
    THEN new \o replace(SubSeq(s, Len(old) + 1, Len(s)), old, new)
    ELSE <<Head(s)>> \o replace(Tail(s), old, new)

\* line 101: the question as a label
profile_label(q) ==
    strip(replace(replace(replace(q, <<"?">>, <<>>),
                          <<"W", "h", "a", "t", " ", "i", "s", " ", "y", "o", "u", "r", " ">>,
                          <<>>),
                  <<"W", "h", "a", "t", " ", "i", "s", " ">>, <<>>))

\* build_profile_summary
build_profile_summary(profile_data) ==
    IF profile_data = <<>> THEN Str(<<>>)
    ELSE Str(join(<<"\n">>,
                  <<(<<"Patient Profile:">>)>>
                  \o [i \in DOMAIN profile_data |->
                        <<"- ">> \o profile_label(profile_data[i].question)
                        \o <<": ">> \o profile_data[i].answer.v]))

\* chatbot_config.CHATBOT_SYSTEM_PROMPT: the persona and its rules, then the
\* line break before the closing quotes
CHATBOT_SYSTEM_PROMPT ==
    Str(<<"You are Remy, a friendly and knowledgeable medical triage assistant. [rules]",
          "\n">>)

\* build_full_system_prompt
build_full_system_prompt(profile_data, rs) ==
    LET profile_summary == build_profile_summary(profile_data)
        report_context_part == build_report_context(rs)
    IN Str(join(<<"\n", "\n">>,
                <<strip(CHATBOT_SYSTEM_PROMPT.v)>>
                \o (IF profile_summary.v # <<>> THEN <<profile_summary.v>> ELSE <<>>)
                \o (IF report_context_part.v # <<>> THEN <<report_context_part.v>>
                    ELSE <<>>)))

----------------------------------------------------------------------------
(* The chat endpoints (app/chatbot/chatbot_routes.py) over the session      *)
(* store.  The store is the key-value cache behind create_chat_session,     *)
(* get_chat_session and delete_chat_session.                                *)

\* create(profile_data, reports) -> session_id: a row under a new id
create_chat_session(store, id, profile_data, reports_raw) ==
    [s \in DOMAIN store \cup {id} |->
        IF s = id THEN [profile_data |-> profile_data, reports |-> reports_raw]
        ELSE store[s]]

\* get(session_id) -> {profile_data, reports} or absent
get_chat_session(store, id) == IF id \in DOMAIN store THEN store[id] ELSE None

\* delete(session_id) -> bool, true iff a row existed
delete_chat_session(store, id) ==
    [deleted |-> id \in DOMAIN store,
     store |-> [s \in DOMAIN store \ {id} |-> store[s]]]

\* ChatbotClient.generate_response: the content of the first choice as the
\* service sent it, or Exception for a timeout, a connection error, an error
\* status or a body without choices[0].message.content
generate_response(service) ==
    IF service.outcome = "content" THEN Returned(service.content)
    ELSE Raised("Exception")

\* extract_patient_name: the answer of the first entry whose question holds
\* "name", stripped; "there" when there is none
RECURSIVE extract_patient_name(_)
extract_patient_name(profile_data) ==
    IF profile_data = <<>> THEN Text("there")
    ELSE IF str_in(<<"n", "a", "m", "e">>, lower(Head(profile_data).question))
    THEN Str(strip(Head(profile_data).answer.v))
    ELSE extract_patient_name(Tail(profile_data))

\* any(r.get("is_main", False) for r in reports_raw)
has_main_report(reports_raw) ==
    \E i \in DOMAIN reports_raw : dict_get(reports_raw[i], "is_main", FALSE)

\* lines 263-266
fallback_welcome(profile_data, reports_raw) ==
    IF has_main_report(reports_raw)
    THEN Fmt("Hi {patient_name}! I'm Remy. Based on your recent report, how can I help you today?",
             extract_patient_name(profile_data))
    ELSE Fmt("Hi {patient_name}! I'm Remy. How can I help you today?",
             extract_patient_name(profile_data))

FALLBACK_MESSAGE == Text("I'm sorry, something went wrong. Please try again.")

\* raise HTTPException(status_code, detail)
HTTPError(status, detail) == [status |-> status, detail |-> detail]

\* a response model whose message field is declared str: any other value
\* fails validation, which the handler's `except Exception` turns into 500
message_response(body, detail) ==
    IF IsStr(body.message) THEN [status |-> 200, body |-> body]
    ELSE HTTPError(500, detail)

\* start_chat with the id the store gives the new session
start_chat(req, store, id, service) ==
    LET reply == generate_response(service)
        welcome_message == IF reply.raised = "none" THEN reply.v
                           ELSE fallback_welcome(req.profile_data, req.reports)
    IN [store |-> create_chat_session(store, id, req.profile_data, req.reports),
        system_prompt |-> build_full_system_prompt(req.profile_data, req.reports),
        events |-> <<"create_chat_session", "generate_response">>,
        response |-> message_response([session_id |-> id,
                                       message |-> welcome_message,
                                       is_first |-> TRUE],
                                      "Failed to start chat")]

\* lines 312-314 with the reports of the session left out
session_prompt_without_reports(session) ==
    build_full_system_prompt(dict_get(session, "profile_data", <<>>), <<>>)

\* lines 312-314: the system prompt of a stored session
session_prompt(session) ==
    build_full_system_prompt(dict_get(session, "profile_data", <<>>),
                             dict_get(session, "reports", <<>>))

continue_chat_loading_session_first(req, store, service) ==
    LET session == get_chat_session(store, req.session_id)
    IN IF session = None
       THEN [system_prompt |-> None, events |-> <<"get_chat_session">>,
             response |-> HTTPError(404, "Chat session not found")]
       ELSE IF req.history = <<>>
       THEN [system_prompt |-> None, events |-> <<"get_chat_session">>,
             response |-> HTTPError(400, "History cannot be empty")]
       ELSE IF req.history[Len(req.history)].role # "user"
       THEN [system_prompt |-> None, events |-> <<"get_chat_session">>,
             response |-> HTTPError(400, "Last message in history must be from user")]
       ELSE LET reply == generate_response(service)
            IN [system_prompt |-> session_prompt(session),
                events |-> <<"get_chat_session", "generate_response">>,
                response |->
                    message_response(
                        [message |-> IF reply.raised = "none" THEN reply.v
                                     ELSE FALLBACK_MESSAGE],
                        "Chat error")]

continue_chat(req, store, service) ==
    IF req.history = <<>>
    THEN [system_prompt |-> None, events |-> <<>>,
          response |-> HTTPError(400, "History cannot be empty")]
    ELSE IF req.history[Len(req.history)].role # "user"
    THEN [system_prompt |-> None, events |-> <<>>,
          response |-> HTTPError(400, "Last message in history must be from user")]
    ELSE LET session == get_chat_session(store, req.session_id)
         IN IF session = None
            THEN [system_prompt |-> None, events |-> <<"get_chat_session">>,
                  response |-> HTTPError(404, "Chat session not found")]
            ELSE LET reply == generate_response(service)
                 IN [system_prompt |-> session_prompt(session),
                     events |-> <<"get_chat_session", "generate_response">>,
                     response |->
                        message_response(
                            [message |-> IF reply.raised = "none" THEN reply.v
                                         ELSE FALLBACK_MESSAGE],
                            "Chat error")]

end_chat(req, store) ==
    LET d == delete_chat_session(store, req.session_id)
    IN [store |-> d.store,
        events |-> <<"delete_chat_session">>,
        response |-> IF d.deleted THEN [status |-> 200, body |-> [status |-> "ended"]]
                     ELSE HTTPError(404, "Chat session not found")]

----------------------------------------------------------------------------
(* The chat endpoints as a state machine: any sequence of start, message    *)
(* and end requests, one at a time.                                         *)

MaxSessions == 2

\* the ids the store can hand out, and an id it never hands out
SessionIds == 1..MaxSessions
RequestedIds == 0..MaxSessions

Profiles ==
    {<<>>,
     <<QA(<<"N", "a", "m", "e">>, <<" ", "A", "n", "n">>),
       QA(<<"W", "h", "a", "t", " ", "i", "s", " ", "y", "o", "u", "r", " ", "a", "g", "e", "?">>,
          <<"4", "2">>)>>}

ReportLists ==
    {<<>>,
     <<[is_main |-> TRUE,
        report_data |-> [urgency_level |-> Text("green_home_care"),
                         summary |-> PyList(<<Text("Likely a common cold.")>>)]]>>}

ChatMessage(role, content) == [role |-> role, content |-> Text(content)]

Histories ==
    {<<>>,
     <<ChatMessage("user", "hi")>>,
     <<ChatMessage("assistant", "hello")>>,
     <<ChatMessage("user", "hi"), ChatMessage("assistant", "hello")>>,
     <<ChatMessage("assistant", "hello"), ChatMessage("user", "hi")>>}

\* "timeout" and "connection error": requests.post raises; "error status":
\* raise_for_status raises; "bad body": no choices[0].message.content;
\* "content": status 200 with that content, a string or null
ChatServices ==
    {[outcome |-> o] : o \in {"timeout", "connection error", "error status", "bad body"}}
    \cup {[outcome |-> "content", content |-> c] :
            c \in {Str(<<"H", "e", "l", "l", "o">>), Str(<<>>), Str(<<" ">>), None}}

InitChat ==
    /\ op = "idle"
    /\ GuidanceIdle
    /\ SchemaIdle
    /\ ServiceIdle

StartChat ==
    \E profile_data \in Profiles, reports_raw \in ReportLists,
       id \in SessionIds \ issued, service \in ChatServices :
        LET req == [endpoint |-> "start", profile_data |-> profile_data,
                    reports |-> reports_raw]
            r == start_chat(req, sessions, id, service)
        IN /\ op' = "start_chat"
           /\ request' = req
           /\ llm' = service
           /\ sessions' = r.store
           /\ issued' = issued \cup {id}
           /\ system_prompt' = r.system_prompt
           /\ events' = r.events
           /\ response' = r.response
           /\ UNCHANGED <<guidance_vars, schema_vars, calls_vars, responses,
                          report_symptom_data, report, age_str, age_number,
                          engine_vars, user_message, context, llm_response,
                          reports, report_context>>

ContinueChat ==
    \E id \in RequestedIds, history \in Histories, service \in ChatServices :
        LET req == [endpoint |-> "message", session_id |-> id, history |-> history]
            r == continue_chat(req, sessions, service)
        IN /\ op' = "continue_chat"
           /\ request' = req
           /\ llm' = IF "generate_response" \in Range(r.events) THEN service ELSE NoCall
           /\ system_prompt' = r.system_prompt
           /\ events' = r.events
           /\ response' = r.response
           /\ UNCHANGED <<guidance_vars, schema_vars, calls_vars, responses,
                          report_symptom_data, report, age_str, age_number,
                          sessions, issued, engine_vars, user_message, context, llm_response,
                          reports, report_context>>

EndChat ==
    \E id \in RequestedIds :
        LET req == [endpoint |-> "end", session_id |-> id]
            r == end_chat(req, sessions)
        IN /\ op' = "end_chat"
           /\ request' = req
           /\ llm' = NoCall
           /\ system_prompt' = None
           /\ sessions' = r.store
           /\ events' = r.events
           /\ response' = r.response
           /\ UNCHANGED <<guidance_vars, schema_vars, calls_vars, responses,
                          report_symptom_data, report, age_str, age_number,
                          issued, engine_vars, user_message, context, llm_response,
                          reports, report_context>>

NextChat == StartChat \/ ContinueChat \/ EndChat

SpecChat == InitChat /\ [][NextChat]_vars

----------------------------------------------------------------------------
(* Claims about the chat endpoints *)

ValidHistory(history) ==
    history # <<>> /\ history[Len(history)].role = "user"

\* C16: continue_chat rejects an empty history with a client error, and a
\* history whose last entry is not from "user" with a client error, in both
\* cases before any session-store read and any LLM call; a valid history on
\* a session id that does not exist gets not-found without an LLM call.
C16_ValidationBeforeAnyCall ==
    op = "continue_chat" =>
        /\ request.history = <<>> =>
                response.status = 400 /\ events = <<>>
        /\ (request.history # <<>> /\ ~ValidHistory(request.history)) =>
                response.status = 400 /\ events = <<>>
        /\ (ValidHistory(request.history) /\ request.session_id \notin DOMAIN sessions) =>
                /\ response.status = 404
                /\ "generate_response" \notin Range(events)

\* a malformed request is rejected although its session exists
C16_Witness ==
    /\ op = "continue_chat"
    /\ request.history # <<>>
    /\ ~ValidHistory(request.history)
    /\ request.session_id \in DOMAIN sessions
    /\ response.status = 400

\* one request as C17 describes it, from the store before it to the store
\* and the response after it
LifecycleStep ==
    /\ op' = "start_chat" =>
            \E id \in issued' \ issued :
                /\ DOMAIN sessions' = DOMAIN sessions \cup {id}
                /\ \A s \in DOMAIN sessions : sessions'[s] = sessions[s]
    /\ op' = "continue_chat" =>
            /\ sessions' = sessions
            /\ ValidHistory(request'.history) =>
                    /\ (response'.status = 200) <=>
                            (request'.session_id \in DOMAIN sessions)
                    /\ request'.session_id \notin DOMAIN sessions =>
                            response'.status = 404
    /\ op' = "end_chat" =>
            /\ (response'.status = 200 /\ response'.body.status = "ended") <=>
                    (request'.session_id \in DOMAIN sessions)
            /\ request'.session_id \notin DOMAIN sessions => response'.status = 404
            /\ DOMAIN sessions' = DOMAIN sessions \ {request'.session_id}
            /\ \A s \in DOMAIN sessions' : sessions'[s] = sessions[s]
    /\ \A s \in issued \ DOMAIN sessions : s \notin DOMAIN sessions'

\* C17 as stated: over any sequence of start / message / end requests a
\* session exists exactly from the start_chat that created its id until the
\* first end_chat on it; a valid message on s is answered iff s exists and
\* otherwise gets not-found; end_chat(s) returns "ended" iff s existed; after
\* it the row of s is gone for every later request.
C17_SessionLifecycle == [][LifecycleStep]_vars

\* the message the endpoint falls back to when the LLM call failed
FallbackOf(req) ==
    IF req.endpoint = "start" THEN fallback_welcome(req.profile_data, req.reports)
    ELSE FALLBACK_MESSAGE

\* C18 as stated: every start_chat request, and every valid continue_chat
\* request on an existing session, gets a successful response with a
\* non-empty, non-blank message whatever the LLM service does: the fallback
\* text when the call failed; start_chat's response carries the id of the
\* session it created.
C18_AlwaysUsableMessage ==
    (\/ op = "start_chat"
     \/ /\ op = "continue_chat"
        /\ ValidHistory(request.history)
        /\ request.session_id \in DOMAIN sessions) =>
        /\ response.status = 200
        /\ IsStr(response.body.message)
        /\ strip(response.body.message.v) # <<>>
        /\ llm.outcome # "content" => response.body.message = FallbackOf(request)
        /\ op = "start_chat" =>
                /\ response.body.session_id \in DOMAIN sessions
                /\ sessions[response.body.session_id] =
                        [profile_data |-> request.profile_data,
                         reports |-> request.reports]

\* a message request that reached the LLM call
Accepted(evs) == "generate_response" \in Range(evs)

\* one request as C23 describes it: start_chat stores the request's data
\* under the new id; an accepted message is sent with the prompt of the row
\* stored under its session id; no request changes a row that stays
PromptStep ==
    /\ op' = "start_chat" =>
            \E id \in issued' \ issued :
                /\ id \in DOMAIN sessions'
                /\ sessions'[id] = [profile_data |-> request'.profile_data,
                                    reports |-> request'.reports]
    /\ (op' = "continue_chat" /\ Accepted(events')) =>
            LET stored == sessions[request'.session_id]
                profile_summary == build_profile_summary(stored.profile_data)
                report_context_part == build_report_context(stored.reports)
            IN /\ request'.session_id \in DOMAIN sessions
               /\ system_prompt' =
                    Str(join(<<"\n", "\n">>,
                             <<strip(CHATBOT_SYSTEM_PROMPT.v)>>
                             \o (IF stored.profile_data # <<>>
                                 THEN <<profile_summary.v>> ELSE <<>>)
                             \o (IF stored.reports # <<>>
                                 THEN <<report_context_part.v>> ELSE <<>>)))
    /\ op' = "continue_chat" => sessions' = sessions
    /\ \A s \in DOMAIN sessions \cap DOMAIN sessions' : sessions'[s] = sessions[s]

\* C23: for every accepted continue_chat request on session s the system
\* prompt sent to the LLM is the persona preamble followed by the profile
\* summary and the report context of exactly the profile_data and reports
\* that the start_chat of s stored, never another session's data or the
\* message request's; continue_chat only reads the store, so the row and the
\* prompt of s are the same on every turn, whatever requests on other
\* sessions come in between.
C23_PromptFromStoredSession == [][PromptStep]_vars

\* a message is accepted on a session with reports while another session
\* with other data exists
C23_Witness ==
    /\ op = "continue_chat"
    /\ Accepted(events)
    /\ request.session_id \in DOMAIN sessions
    /\ sessions[request.session_id].reports # <<>>
    /\ system_prompt = session_prompt(sessions[request.session_id])
    /\ \E other \in DOMAIN sessions :
            /\ sessions[other] # sessions[request.session_id]
            /\ system_prompt # session_prompt(sessions[other])

----------------------------------------------------------------------------
(* guidance_engine.get_guidance: the rule table is loaded from the file on  *)
(* every request.                                                           *)

\* load_guidance_rules on a file that is there and holds JSON (document is
\* what json.load gives), is missing, holds invalid JSON, or cannot be read
load_guidance_rules(file) ==
    CASE file.state = "ok" -> Returned(file.document)
      [] file.state = "missing" -> Raised("FileNotFoundError")
      [] file.state = "invalid json" -> Raised("ValueError")
      [] file.state = "unreadable" -> Raised("RuntimeError")

\* lines 173-181
fallback_bundle ==
    [matched_symptoms |-> <<>>,
     follow_up_questions |-> <<>>,
     urgency_rules |-> <<>>,
     analysis_hints |-> <<>>,
     suggested_advice |-> <<>>,
     emergency_keywords |-> <<>>,
     disclaimer |-> "Error loading guidance rules."]

\* lines 158-169 with no handler around them: the bundle, or the exception
\* of the first step that fails.  A document that is not an object has no
\* .get; a schema that is not a dict has none either; a complaint that is a
\* number has no .lower(), which a non-zero one reaches
guidance_steps(s, file) ==
    LET loaded == load_guidance_rules(file)
    IN IF loaded.raised # "none" THEN loaded
       ELSE IF "t" \in DOMAIN loaded.v THEN Raised("AttributeError")
       ELSE IF s = None THEN Raised("AttributeError")
       ELSE LET current_complaint == dict_get(s, "current_complaint", Str(<<>>))
            IN IF current_complaint.t = "int"
               THEN IF current_complaint.v # 0 THEN Raised("AttributeError")
                    ELSE Returned(build_guidance_bundle(<<>>, loaded.v))
               ELSE Returned(build_guidance_bundle(
                        match_symptoms(current_complaint,
                                       dict_get(loaded.v, "symptoms", <<>>)),
                        loaded.v))

get_guidance_propagating(s, file) == guidance_steps(s, file)

\* the whole function: `except Exception` answers every failure with the
\* fallback bundle
get_guidance(s, file) ==
    LET r == guidance_steps(s, file)
    IN IF r.raised = "none" THEN r ELSE Returned(fallback_bundle)

----------------------------------------------------------------------------
(* get_guidance as a state machine *)

\* rule documents: fever is matched by "a", headache by "b"
GuidanceDocuments ==
    {[k \in DOMAIN g \cup {"symptoms"} |->
        IF k = "symptoms"
        THEN <<[name |-> "fever", data |-> update(f, [keywords |-> <<<<"a">>>>])],
               [name |-> "headache",
                data |-> [keywords |-> <<<<"b">>>>, follow_up_questions |-> <<"q1">>,
                          urgency_rules |-> [doctor_visit |-> "B"]]]>>
        ELSE g[k]] :
        g \in TableGlobals, f \in SymptomRules}

\* the file as deployed: with a rule document, with JSON of another shape (a
\* list), missing, not JSON, unreadable
RuleFiles ==
    {[state |-> "ok", document |-> d] : d \in GuidanceDocuments}
    \cup {[state |-> "ok", document |-> PyList(<<>>)]}
    \cup {[state |-> s] : s \in {"missing", "invalid json", "unreadable"}}

\* the schemas a caller passes: with a complaint, without one, with a
\* complaint that is not text, and no schema at all
GuidanceSchemas ==
    {[schema_template EXCEPT !.current_complaint = c] :
        c \in {None, Str(<<>>), Str(<<"a">>), Str(<<"A", "b">>), Str(<<"b", " ", "a">>),
               PyInt(0), PyInt(5)}}
    \cup {[demographics |-> [age |-> None, gender |-> None]], None}

InitGuidance ==
    /\ op = "idle"
    /\ GuidanceIdle
    /\ SchemaIdle
    /\ CallsIdle
    /\ ReportIdle
    /\ ChatIdle
    /\ PromptIdle
    /\ rules_file \in RuleFiles
    /\ guidance = None

GetGuidance ==
    /\ op = "idle"
    /\ \E s \in GuidanceSchemas :
        LET r == get_guidance(s, rules_file)
        IN /\ op' = "get_guidance"
           /\ schema' = s
           /\ raised' = r.raised
           /\ guidance' = IF r.raised = "none" THEN r.v ELSE None
           /\ UNCHANGED <<guidance_vars, history_text, answers, medical_history,
                          calls_vars, report_vars, chat_vars, rules_file,
                          prompt_vars>>

NextGuidance == GetGuidance

SpecGuidance == InitGuidance /\ [][NextGuidance]_vars

----------------------------------------------------------------------------
(* Claims about get_guidance *)

\* the rule table source is missing or malformed
RulesUnavailable ==
    \/ rules_file.state # "ok"
    \/ "t" \in DOMAIN rules_file.document

\* C19 as stated: when the rule table source is missing or malformed the
\* guidance subsystem fails fatally: no get_guidance request returns a
\* guidance bundle to its caller.
C19_LoadFailureIsFatal ==
    (op = "get_guidance" /\ RulesUnavailable) =>
        /\ raised # "none"
        /\ guidance = None

BundleFields ==
    {"matched_symptoms", "follow_up_questions", "urgency_rules", "analysis_hints",
     "suggested_advice", "emergency_keywords", "disclaimer"}

\* an internal failure of the engine: the rules cannot be used, the schema
\* is no dict, or the complaint is a number the matcher tries to lower()
InternalFailure ==
    \/ RulesUnavailable
    \/ schema = None
    \/ /\ "current_complaint" \in DOMAIN schema
       /\ schema.current_complaint.t = "int"
       /\ schema.current_complaint.v # 0

\* C20: get_guidance never propagates an exception; for every schema and
\* every internal failure it returns a bundle with all seven fields, and in
\* the failure case the five symptom-scoped fields are empty.
C20_AlwaysWellFormedBundle ==
    op = "get_guidance" =>
        /\ raised = "none"
        /\ DOMAIN guidance = BundleFields
        /\ InternalFailure =>
                /\ guidance.matched_symptoms = <<>>
                /\ guidance.follow_up_questions = <<>>
                /\ guidance.urgency_rules = <<>>
                /\ guidance.analysis_hints = <<>>
                /\ guidance.suggested_advice = <<>>

C20_Witness ==
    /\ op = "get_guidance"
    /\ rules_file.state = "ok"
    /\ ~RulesUnavailable
    /\ schema # None
    /\ dict_get(schema, "current_complaint", None) = PyInt(5)
    /\ guidance.disclaimer = "Error loading guidance rules."

----------------------------------------------------------------------------
(* llm_prompt.build_context_prompt and llm_client.get_llm_response.  A      *)
(* rendered text is a str whose pieces are the fixed texts of the template, *)
(* the texts put in and the line breaks "\n".                               *)

\* what an f-string placeholder puts in for a value: str(value)
format_value(x) ==
    CASE x.t = "str" -> x.v
      [] x.t = "None" -> <<"None">>
      [] x.t = "int" -> <<ToString(x.v)>>
      [] x.t = "bool" -> IF x.v THEN <<"True">> ELSE <<"False">>

\* the truth value of `x` in `x or default` for a str, None, an int or a bool
truth_value(x) ==
    CASE x.t = "str" -> x.v # <<>>
      [] x.t = "None" -> FALSE
      [] x.t = "int" -> x.v # 0
      [] x.t = "bool" -> x.v

\* list[:n] taken as the whole list
first_n_taking_all(list, n) == list

\* list[:n]
first_n(list, n) == SubSeq(list, 1, IF Len(list) < n THEN Len(list) ELSE n)

\* [f"- {x}" for x in list]
bullets(list) == [i \in DOMAIN list |-> <<"- ", list[i]>>]

\* the texts of a list as strs of one piece each
pieces(list) == [i \in DOMAIN list |-> <<list[i]>>]

\* one line of the template with its line break
line(s) == s \o <<"\n">>

\* lines 8-41
build_system_prompt == Text("You are a medical guidance assistant. [...] Always respond with valid JSON only.")

\* lines 48-100
build_context_prompt(medical_schema, g, message) ==
    LET demographics == dict_get(medical_schema, "demographics", <<>>)
        age == dict_get(demographics, "age", Text("unknown"))
        gender == dict_get(demographics, "gender", Text("unknown"))
        current_complaint == dict_get(medical_schema, "current_complaint", Text("none specified"))
        history == dict_get(medical_schema, "medical_history", <<>>)
        pregnancy_status == dict_get(medical_schema, "pregnancy_status", None)
        matched == dict_get(g, "matched_symptoms", <<>>)
        follow_up_questions == dict_get(g, "follow_up_questions", <<>>)
        urgency_rules == dict_get(g, "urgency_rules", <<>>)
        analysis_hints == dict_get(g, "analysis_hints", <<>>)
        suggested_advice == dict_get(g, "suggested_advice", <<>>)
        emergency_keywords == dict_get(g, "emergency_keywords", <<>>)
    IN Str(
        line(<<>>)
        \o line(<<"PATIENT CONTEXT:">>)
        \o line(<<"- Age: ">> \o format_value(age))
        \o line(<<"- Gender: ">> \o format_value(gender))
        \o line(<<"- Current complaint: ">> \o format_value(current_complaint))
        \o line(<<"- Medical history: ">>
                \o (IF history # <<>> THEN join(<<", ">>, history) ELSE <<"none">>))
        \o line(<<"- Pregnancy status: ">>
                \o (IF truth_value(pregnancy_status) THEN format_value(pregnancy_status)
                    ELSE <<"not applicable">>))
        \o line(<<>>)
        \o line(<<"MATCHED SYMPTOMS: ">> \o join(<<", ">>, pieces(matched)))
        \o line(<<>>)
        \o line(<<"SUGGESTED FOLLOW-UP QUESTIONS:">>)
        \o line(join(<<"\n">>, bullets(first_n(follow_up_questions, 3))))
        \o line(<<>>)
        \o line(<<"URGENCY GUIDELINES:">>)
        \o line(<<"- Self-care: ", dict_get(urgency_rules, "self_care", "N/A")>>)
        \o line(<<"- Doctor visit: ", dict_get(urgency_rules, "doctor_visit", "N/A")>>)
        \o line(<<"- Emergency: ", dict_get(urgency_rules, "emergency", "N/A")>>)
        \o line(<<>>)
        \o line(<<"ANALYSIS HINTS:">>)
        \o line(join(<<"\n">>, bullets(analysis_hints)))
        \o line(<<>>)
        \o line(<<"SUGGESTED ADVICE:">>)
        \o line(join(<<"\n">>, bullets(suggested_advice)))
        \o line(<<>>)
        \o line(<<"EMERGENCY KEYWORDS TO WATCH FOR:">>)
        \o line(join(<<", ">>, pieces(first_n(emergency_keywords, 10))))
        \o line(<<>>)
        \o line(<<"USER'S CURRENT MESSAGE: \"", message, "\"">>)
        \o line(<<>>)
        \o line(<<"Instructions:">>)
        \o line(<<"1. If this is early in the conversation or you need more information, ask a relevant follow-up question">>)
        \o line(<<"2. If you have enough information, provide analysis with appropriate urgency level">>)
        \o line(<<"3. Use the guidance above as suggestions, not strict rules">>)
        \o line(<<"4. Do NOT diagnose or make definitive medical statements">>)
        \o line(<<"5. If user mentions emergency keywords, classify as \"emergency\" urgency">>))

\* f"{system_prompt}\n\n{context_prompt}"
build_full_prompt(medical_schema, g, message) ==
    Str(build_system_prompt.v \o <<"\n\n">>
        \o build_context_prompt(medical_schema, g, message).v)

\* lines 61-65 and 102-106
SAFE_QUESTION ==
    [type |-> "question",
     text |-> "Could you provide more details about your symptoms?",
     expected_format |-> "Please describe what you're experiencing"]

FALLBACK_QUESTION ==
    [type |-> "question",
     text |-> "Can you tell me more about your symptoms?",
     expected_format |-> "Please describe what you're experiencing in detail"]

\* call_cerebras_llm: None without a key, when requests.post raises, on a
\* status other than 200 and on a body without the content; the safe
\* question when the content is not JSON; the decoded value otherwise
call_cerebras_llm(prompt, service) ==
    IF ~service.key THEN None
    ELSE CASE service.outcome = "json" -> service.value
           [] service.outcome = "unparsable" -> SAFE_QUESTION
           [] OTHER -> None

\* the HTTP requests call_cerebras_llm makes
turn_requests(service) == IF service.key THEN <<"requests.post">> ELSE <<>>

\* a decoded JSON value is a dict: the others are tagged
is_dict(x) == "t" \notin DOMAIN x

\* get_llm_response: a dict without "type" has response_type None
get_llm_response(medical_schema, g, message, service) ==
    LET prompt == build_full_prompt(medical_schema, g, message)
        answer == call_cerebras_llm(prompt, service)
    IN IF is_dict(answer) /\ "type" \in DOMAIN answer
          /\ answer.type \in {"question", "analysis", "decision"}
       THEN answer
       ELSE FALLBACK_QUESTION

----------------------------------------------------------------------------
(* get_llm_response as a state machine: one guidance turn *)

MaxQuestions == 4
MaxKeywords == 11

QuestionPool == <<"q1", "q2", "q3", "q4", "q5", "q6", "q7">>

KeywordPool ==
    <<"chest pain", "seizure", "stroke", "fainting", "bleeding", "choking",
      "overdose", "unconscious", "paralysis", "anaphylaxis", "suicidal",
      "blue lips", "severe burn", "confusion">>

Reverse(s) == [i \in DOMAIN s |-> s[Len(s) + 1 - i]]

\* up to n texts of a pool in the pool's order, and n of them in the opposite one
ListsFrom(pool, n) ==
    {SubSeq(pool, 1, m) : m \in 0..n} \cup {Reverse(SubSeq(pool, 1, n))}

\* urgency_rules of a bundle: any of the three levels, each with its text
TurnUrgencyRules ==
    {[l \in levels |->
        [self_care |-> "rest", doctor_visit |-> "A OR B", emergency |-> "call now"][l]] :
        levels \in SUBSET {"self_care", "doctor_visit", "emergency"}}
    \cup {[self_care |-> "", doctor_visit |-> "A", emergency |-> "call now"]}

\* the bundles get_guidance gives, the fallback bundle among them
TurnBundles ==
    {[matched_symptoms |-> x.matched,
      follow_up_questions |-> q,
      urgency_rules |-> u,
      analysis_hints |-> x.hints,
      suggested_advice |-> x.advice,
      emergency_keywords |-> k,
      disclaimer |-> "not a diagnosis"] :
        q \in ListsFrom(QuestionPool, MaxQuestions),
        k \in ListsFrom(KeywordPool, MaxKeywords),
        u \in TurnUrgencyRules,
        x \in {[matched |-> <<>>, hints |-> <<>>, advice |-> <<>>],
               [matched |-> <<"fever", "headache">>, hints |-> <<"h1">>,
                advice |-> <<"v1", "v2">>]}}
    \cup {fallback_bundle}

\* the schemas build_medical_schema gives for an empty and a full questionnaire
TurnSchemas ==
    {build_medical_schema(a).v :
        a \in {<<>>,
               [q_age |-> Str(<<"3", "0">>), q_gender |-> Str(<<" ", "A">>),
                q_med_history |-> Str(<<"a", ",", "d">>),
                q_current_ailment |-> Str(<<"B", "a", "d", " ">>),
                q_pregnant |-> Str(<<"N", "o">>)],
               [q_pregnant |-> PyBool(FALSE)]}}

UserMessages == {"I have a fever", "is \"chest pain\" serious?"}

\* the service: no key configured; requests.post raises; a status other than
\* 200; a body without choices[0].message.content; content that is not JSON;
\* content that decodes to a value
TurnServices ==
    {[key |-> FALSE, outcome |-> "not called"]}
    \cup {[key |-> TRUE, outcome |-> o] :
            o \in {"timeout", "status", "bad body", "unparsable"}}
    \cup {[key |-> TRUE, outcome |-> "json", value |-> v] :
            v \in {[type |-> "question", text |-> "Since when?"],
                   [type |-> "diagnosis", text |-> "flu"],
                   [text |-> "no type"],
                   PyList(<<>>), None}}

InitTurn ==
    /\ op = "idle"
    /\ GuidanceIdle
    /\ history_text = None
    /\ answers = <<>>
    /\ medical_history = <<>>
    /\ raised = "none"
    /\ schema \in TurnSchemas
    /\ CallsIdle
    /\ ReportIdle
    /\ ChatIdle
    /\ rules_file = [state |-> "missing"]
    /\ guidance \in TurnBundles
    /\ user_message \in UserMessages
    /\ context = None
    /\ llm_response = None
    /\ system_prompt = None
    /\ reports = <<>>
    /\ report_context = None

GetLlmResponse ==
    /\ op = "idle"
    /\ \E service \in TurnServices :
        /\ op' = "get_llm_response"
        /\ llm' = service
        /\ context' = build_context_prompt(schema, guidance, user_message)
        /\ llm_response' = get_llm_response(schema, guidance, user_message, service)
        /\ events' = turn_requests(service)
        /\ UNCHANGED <<guidance_vars, schema_vars, calls_vars, responses,
                       report_symptom_data, report, age_str, age_number,
                       sessions, issued, request, response, engine_vars,
                       user_message, system_prompt, reports, report_context>>

NextTurn == GetLlmResponse

SpecTurn == InitTurn /\ [][NextTurn]_vars

----------------------------------------------------------------------------
(* Claim about build_context_prompt *)

\* the parts of a rendered text between the occurrences of one piece
PartsBetween(s, piece) ==
    LET at == SelectSeq([i \in 1..Len(s) |-> i], LAMBDA i : s[i] = piece)
        cuts == <<0>> \o at \o <<Len(s) + 1>>
    IN [k \in 1..(Len(cuts) - 1) |-> SubSeq(s, cuts[k] + 1, cuts[k + 1] - 1)]

\* the rendered context, line by line
ContextLines == PartsBetween(context.v, "\n")

\* the lines that follow the header h, up to the next empty line
SectionOf(h) ==
    LET lines == ContextLines
        start == CHOOSE i \in DOMAIN lines : lines[i] = <<h>>
        stop == CHOOSE j \in (start + 1)..Len(lines) :
                    /\ lines[j] = <<>>
                    /\ \A k \in (start + 1)..(j - 1) : lines[k] # <<>>
    IN SubSeq(lines, start + 1, stop - 1)

\* the keywords the context lists, in order
ListedKeywords ==
    LET section == SectionOf("EMERGENCY KEYWORDS TO WATCH FOR:")
    IN IF section = <<>> THEN <<>> ELSE PartsBetween(section[1], ", ")

\* the guideline line of a level
GuidelineLine(label, level) ==
    <<label, IF level \in DOMAIN guidance.urgency_rules
             THEN guidance.urgency_rules[level] ELSE "N/A">>

\* C21: the context build_context_prompt renders lists at most 3 follow-up
\* questions, the first 3 of the bundle in order; at most 10 emergency
\* keywords, the first 10 in order; exactly one guideline line for each of
\* self_care, doctor_visit and emergency, with the bundle's text for the
\* level or "N/A" when the bundle has none; and the user message verbatim.
C21_ContextBoundedAndComplete ==
    op = "get_llm_response" =>
        LET questions == SectionOf("SUGGESTED FOLLOW-UP QUESTIONS:")
            keywords == ListedKeywords
            guidelines == SectionOf("URGENCY GUIDELINES:")
            lines == ContextLines
        IN /\ Len(questions) <= 3
           /\ Len(questions) <= Len(guidance.follow_up_questions)
           /\ Len(guidance.follow_up_questions) >= 3 => Len(questions) = 3
           /\ Len(guidance.follow_up_questions) < 3 =>
                    Len(questions) = Len(guidance.follow_up_questions)
           /\ \A i \in DOMAIN questions :
                    questions[i] = <<"- ", guidance.follow_up_questions[i]>>
           /\ Len(keywords) <= 10
           /\ Len(guidance.emergency_keywords) >= 10 => Len(keywords) = 10
           /\ Len(guidance.emergency_keywords) < 10 =>
                    Len(keywords) = Len(guidance.emergency_keywords)
           /\ \A i \in DOMAIN keywords :
                    keywords[i] = <<guidance.emergency_keywords[i]>>
           /\ guidelines = <<GuidelineLine("- Self-care: ", "self_care"),
                             GuidelineLine("- Doctor visit: ", "doctor_visit"),
                             GuidelineLine("- Emergency: ", "emergency")>>
           /\ Cardinality({i \in DOMAIN lines :
                    lines[i] = <<"USER'S CURRENT MESSAGE: \"", user_message, "\"">>}) = 1

\* a bundle with more questions and keywords than the context lists, and
\* with a level that has no rule
C21_Witness ==
    /\ op = "get_llm_response"
    /\ Len(guidance.follow_up_questions) > 3
    /\ Len(guidance.emergency_keywords) > 10
    /\ Len(SectionOf("SUGGESTED FOLLOW-UP QUESTIONS:")) = 3
    /\ Len(ListedKeywords) = 10
    /\ "self_care" \notin DOMAIN guidance.urgency_rules
    /\ "emergency" \in DOMAIN guidance.urgency_rules

----------------------------------------------------------------------------
(* build_report_context as a state machine *)

MaxReports == 3

\* reports as /chat/start receives them: dicts of any keys
ReportPool ==
    {[is_main |-> TRUE, generated_at |-> Text("2026-01-05"),
      report_data |->
        [urgency_level |-> Text("yellow_doctor_visit"),
         summary |-> PyList(<<Text("Likely a common cold."), Text("No red flags.")>>),
         possible_causes |->
            PyList(<<[title |-> Text("Common cold"), severity |-> Text("mild"),
                      probability |-> PyFloat(7),
                      short_description |-> Text("A viral infection."),
                      detail |-> [what_you_can_do_now |->
                                    PyList(<<Text("Rest"), Text("Drink fluids")>>),
                                  warning |-> Text("See a doctor if it lasts.")]],
                     [title |-> Text("Allergy")]>>),
         advice |-> PyList(<<Text("Rest"), Text("Stay hydrated")>>)]],
     [is_main |-> TRUE, generated_at |-> Text("2026-02-01"),
      report_data |-> [urgency_level |-> Text("red_emergency")]],
     [is_main |-> FALSE, generated_at |-> Text("2025-12-01"),
      report_data |-> [urgency_level |-> Text("green_home_care"),
                       summary |-> PyList(<<Text("Mild headache."), Text("Resolved.")>>)]],
     [generated_at |-> Text("2025-11-01"),
      report_data |-> [summary |-> PyList(<<>>)]],
     [assessment_topic |-> Text("cough")]}

ContextReports == UNION {[1..n -> ReportPool] : n \in 0..MaxReports}

InitContext ==
    /\ op = "idle"
    /\ GuidanceIdle
    /\ SchemaIdle
    /\ CallsIdle
    /\ ReportIdle
    /\ ChatIdle
    /\ EngineIdle
    /\ user_message = None
    /\ context = None
    /\ llm_response = None
    /\ system_prompt = None
    /\ reports \in ContextReports
    /\ report_context = None

BuildReportContext ==
    /\ op = "idle"
    /\ op' = "build_report_context"
    /\ report_context' = build_report_context(reports)
    /\ UNCHANGED <<guidance_vars, schema_vars, calls_vars, report_vars, chat_vars,
                   engine_vars, user_message, context, llm_response, system_prompt,
                   reports>>

NextContext == BuildReportContext

SpecContext == InitContext /\ [][NextContext]_vars

----------------------------------------------------------------------------
(* Claim about build_report_context *)

ReportContextLines == PartsBetween(report_context.v, "\n")

\* the primary-topic blocks of the context
PrimaryBlocks ==
    {i \in DOMAIN ReportContextLines : ReportContextLines[i] = <<PRIMARY_TOPIC>>}

\* the history lines of the context: those after "Past Medical Reports:"
HistoryLines ==
    LET lines == ReportContextLines
        heads == {i \in DOMAIN lines : lines[i] = <<"Past Medical Reports:">>}
    IN IF heads = {} THEN <<>>
       ELSE SubSeq(lines, (CHOOSE i \in heads : TRUE) + 1, Len(lines))

IsMain(r) == dict_get(r, "is_main", FALSE)

\* C24 as stated: for every sequence of reports, build_report_context
\* represents every report exactly once: at most one report as the detailed
\* primary-topic block, every other report as exactly one history line
\* (date, first summary bullet, urgency) in input order, none left out; an
\* empty sequence gives the empty string.
C24_EveryReportRepresentedOnce ==
    op = "build_report_context" =>
        LET others == SelectSeq(reports, LAMBDA r : ~IsMain(r))
        IN /\ Cardinality(PrimaryBlocks) <= 1
           /\ Cardinality(PrimaryBlocks) + Len(HistoryLines) = Len(reports)
           /\ \E main \in {0} \cup {i \in DOMAIN reports : IsMain(reports[i])} :
                    LET rest == SelectSeq([i \in DOMAIN reports |-> i],
                                          LAMBDA i : i # main)
                    IN /\ (main # 0) <=> (PrimaryBlocks # {})
                       /\ Len(HistoryLines) = Len(rest)
                       /\ \A k \in DOMAIN rest :
                            LET r == reports[rest[k]]
                                rd == dict_get(r, "report_data", <<>>)
                                summary == dict_get(rd, "summary", PyList(<<>>))
                            IN HistoryLines[k] =
                                <<"  - ">>
                                \o dict_get(r, "generated_at", Text("unknown date")).v
                                \o <<": ">>
                                \o (IF summary.v # <<>> THEN summary.v[1]
                                    ELSE Text("No summary")).v
                                \o <<" (Urgency: ">>
                                \o dict_get(rd, "urgency_level", Str(<<>>)).v
                                \o <<")">>
           /\ reports = <<>> => report_context = Str(<<>>)

----------------------------------------------------------------------------
(* The service as a whole: chat requests in any order, and the stateless    *)
(* requests, report generation and the guidance turn.  The stateless        *)
(* requests neither read nor write the session store, so each is followed   *)
(* from the idle service, and the chat requests are followed among          *)
(* themselves.                                                              *)

InitService ==
    /\ op = "idle"
    /\ GuidanceIdle
    /\ SchemaIdle
    /\ CallsIdle
    /\ ReportIdle
    /\ ChatIdle
    /\ rules_file = [state |-> "missing"]
    /\ guidance = fallback_bundle
    /\ user_message = "I have a fever"
    /\ context = None
    /\ llm_response = None
    /\ system_prompt = None
    /\ reports = <<>>
    /\ report_context = None

\* no stateless request has been followed
ChatOnly == op \notin {"generate_medical_report", "get_llm_response"}

NextService ==
    \/ ChatOnly /\ StartChat
    \/ ChatOnly /\ ContinueChat
    \/ ChatOnly /\ EndChat
    \/ GenerateMedicalReport
    \/ GetLlmResponse

SpecService == InitService /\ [][NextService]_vars

----------------------------------------------------------------------------
(* Claim about the calls a request makes *)

\* the outbound calls to the LLM service among the calls of a handler:
\* ChatbotClient.generate_response posts once (chatbot_client.py:77-82)
LLMCalls(evs) ==
    SelectSeq(evs, LAMBDA e : e \in {"requests.post", "generate_response"})

\* the session-store operations among the calls of a handler
StoreOperations(evs) ==
    SelectSeq(evs, LAMBDA e : e \in {"create_chat_session", "get_chat_session",
                                     "delete_chat_session"})

\* the single call was made and failed
FailedAttempt ==
    CASE op = "generate_medical_report" -> llm.key /\ llm.outcome # "object"
      [] op = "get_llm_response" -> llm.key /\ llm.outcome # "json"
      [] op \in {"start_chat", "continue_chat"} ->
            llm.outcome \notin {"content", "not called"}
      [] OTHER -> FALSE

\* the fallback value of the request
FallbackProduced ==
    CASE op = "generate_medical_report" ->
            report.possible_causes.v[1].id = Text("general_assessment")
      [] op = "get_llm_response" -> llm_response \in {FALLBACK_QUESTION, SAFE_QUESTION}
      [] op \in {"start_chat", "continue_chat"} ->
            response.status = 200 /\ response.body.message = FallbackOf(request)
      [] OTHER -> FALSE

\* what C22 says of the LLM service
AtMostOneLLMCall ==
    /\ Len(LLMCalls(events)) <= 1
    /\ FailedAttempt => Len(LLMCalls(events)) = 1 /\ FallbackProduced
    /\ op = "end_chat" => LLMCalls(events) = <<>>

\* C22 as stated: every chat, report-generation and guidance-turn request
\* makes at most one outbound call to the LLM service, a failed call is not
\* retried and the fallback value follows the single failed attempt,
\* end_chat makes no LLM call; each chat request performs one session-store
\* operation: create on start, read on message, delete on end.
C22_OneCallOneStoreOperation ==
    /\ AtMostOneLLMCall
    /\ op = "start_chat" => StoreOperations(events) = <<"create_chat_session">>
    /\ op = "continue_chat" => StoreOperations(events) = <<"get_chat_session">>
    /\ op = "end_chat" => StoreOperations(events) = <<"delete_chat_session">>

\* C22 amended: as above, but a message request whose history is rejected
\* by validation performs no session-store operation; every other chat
\* request performs exactly one.
C22_AtMostOneStoreOperation ==
    /\ AtMostOneLLMCall
    /\ op = "start_chat" => StoreOperations(events) = <<"create_chat_session">>
    /\ op = "continue_chat" =>
            StoreOperations(events) =
                IF ValidHistory(request.history) THEN <<"get_chat_session">> ELSE <<>>
    /\ op = "end_chat" => StoreOperations(events) = <<"delete_chat_session">>

\* the LLM call of a message request timed out: one attempt, one read, the
\* fallback message
C22_Witness ==
    /\ op = "continue_chat"
    /\ llm.outcome = "timeout"
    /\ events = <<"get_chat_session", "generate_response">>
    /\ response.body.message = FALLBACK_MESSAGE

====
